---- MODULE Spec2Model ----
(***************************************************************************)
(* Capacitor value matcher: the resumable batch pipeline of                *)
(* CapacitaceValueExtraction/CapacitorValueMatcher.py, with the decoder    *)
(* and the matcher it runs on every row.                                   *)
(*                                                                         *)
(* Text is a sequence of one-character strings.  A number is a decimal     *)
(* [m, e, int]: the value m * 10^e, exact, with int telling a Python int   *)
(* from a Python float (the two print differently).                        *)
(***************************************************************************)
EXTENDS Integers, Sequences, FiniteSets, TLC

\* ------------------------------------------------------------------ bounds
MaxRows == 3
MaxBatch == 3
MaxInterval == 2
MaxRuns == 2
MaxCodeLen == 4
MaxCandidates == 2
MaxCapacitorLen == 3
MaxPoolRows == 3
MaxThreads == 2

\* -------------------------------------------------------------------- text
Digits == {"0", "1", "2", "3", "4", "5", "6", "7", "8", "9"}

UpperLetters == <<"A", "B", "C", "D", "E", "F", "G", "H", "I", "J", "K", "L", "M",
                  "N", "O", "P", "Q", "R", "S", "T", "U", "V", "W", "X", "Y", "Z">>

LowerLetters == <<"a", "b", "c", "d", "e", "f", "g", "h", "i", "j", "k", "l", "m",
                  "n", "o", "p", "q", "r", "s", "t", "u", "v", "w", "x", "y", "z">>

Letters == {UpperLetters[i] : i \in 1..26} \cup {LowerLetters[i] : i \in 1..26} \cup {"µ"}

DigitVal(c) ==
    CASE c = "0" -> 0 [] c = "1" -> 1 [] c = "2" -> 2 [] c = "3" -> 3 [] c = "4" -> 4
      [] c = "5" -> 5 [] c = "6" -> 6 [] c = "7" -> 7 [] c = "8" -> 8 [] c = "9" -> 9

\* str.lower() on one character
LowerChar(c) ==
    IF \E i \in 1..26 : UpperLetters[i] = c
    THEN LowerLetters[CHOOSE i \in 1..26 : UpperLetters[i] = c]
    ELSE c

Lower(s) == [i \in 1..Len(s) |-> LowerChar(s[i])]

\* str.isdigit(): non-empty and all digits
IsDigitStr(s) == Len(s) > 0 /\ \A i \in 1..Len(s) : s[i] \in Digits

\* int(s) of a digit string
RECURSIVE IntOf(_)
IntOf(s) ==
    IF Len(s) = 0 THEN 0
    ELSE 10 * IntOf(SubSeq(s, 1, Len(s) - 1)) + DigitVal(s[Len(s)])

\* first index >= i of s that is not in the class cls (Len(s)+1 if none)
RECURSIVE RunEnd(_, _, _)
RunEnd(s, i, cls) ==
    IF i > Len(s) \/ s[i] \notin cls THEN i ELSE RunEnd(s, i + 1, cls)

\* ----------------------------------------------------------------- numbers
RECURSIVE Pow10(_)
Pow10(n) == IF n = 0 THEN 1 ELSE 10 * Pow10(n - 1)

RECURSIVE NumDigits(_)
NumDigits(n) == IF n < 10 THEN 1 ELSE 1 + NumDigits(n \div 10)

RECURSIVE Norm(_, _, _)
Norm(m, e, isInt) ==
    IF m = 0 THEN [m |-> 0, e |-> 0, int |-> isInt]
    ELSE IF m % 10 = 0 THEN Norm(m \div 10, e + 1, isInt)
    ELSE [m |-> m, e |-> e, int |-> isInt]

PyInt(n) == Norm(n, 0, TRUE)
PyFloat(m, e) == Norm(m, e, FALSE)

\* a * 10^k; the product of an int with 10 ** k is an int for k >= 0 and a
\* float for k < 0 (10 ** -1 is the float 0.1)
TimesPow10(a, k, isInt) == Norm(a.m, a.e + k, isInt)

IsZero(a) == a.m = 0

\* order of magnitude: 10^(Mag-1) <= a < 10^Mag for a > 0
Mag(a) == NumDigits(a.m) + a.e

Min2(x, y) == IF x < y THEN x ELSE y

\* a < b, exact
NumLess(a, b) ==
    IF IsZero(b) THEN FALSE
    ELSE IF IsZero(a) THEN TRUE
    ELSE IF Mag(a) # Mag(b) THEN Mag(a) < Mag(b)
    ELSE LET lo == Min2(a.e, b.e)
         IN  a.m * Pow10(a.e - lo) < b.m * Pow10(b.e - lo)

\* abs(a - b) as a number; exact.  Only evaluated for operands whose
\* magnitudes are at most one apart (see Within).
AbsDiff(a, b) ==
    LET lo == Min2(a.e, b.e)
        x == a.m * Pow10(a.e - lo)
        y == b.m * Pow10(b.e - lo)
    IN  Norm(IF x < y THEN y - x ELSE x - y, lo, FALSE)

\* float(s) for s made of digits and dots: [ok, val]; ok is FALSE where
\* Python raises ValueError (no digit, or more than one dot)
ParseFloat(s) ==
    LET dots == {i \in 1..Len(s) : s[i] = "."}
        digs == {i \in 1..Len(s) : s[i] \in Digits}
    IN  IF Cardinality(dots) > 1 \/ digs = {}
        THEN [ok |-> FALSE, val |-> PyFloat(0, 0)]
        ELSE LET d == IF dots = {} THEN Len(s) + 1 ELSE CHOOSE i \in dots : TRUE
                 whole == SubSeq(s, 1, d - 1)
                 frac == SubSeq(s, d + 1, Len(s))
             IN  [ok |-> TRUE,
                  val |-> PyFloat(IntOf(whole \o frac), 0 - Len(frac))]

\* ----------------------------------------------------------------- decoder
\* a spreadsheet cell: na marks an empty cell (NaN), s is its text otherwise
Cell(text) == [na |-> FALSE, s |-> text]
NaN == [na |-> TRUE, s |-> <<>>]

\* a cell that holds a number (an int or a float); s is what str() gives
Number(text) == [na |-> FALSE, s |-> text, number |-> TRUE]

\* isinstance(cell, str)
IsStr(c) == ~c.na /\ "number" \notin DOMAIN c

\* str(cell)
Str(c) == IF c.na THEN <<"n", "a", "n">> ELSE c.s

\* the substrings of width w that are all digits (the two window loops)
DigitWindows(s, w) ==
    {SubSeq(s, i, i + w - 1) : i \in {j \in 1..(Len(s) - w + 1) : IsDigitStr(SubSeq(s, j, j + w - 1))}}

\* re.findall(r'\d*R\d*', s) from index i on: leftmost, greedy, non-overlapping
RECURSIVE FindAllDRD(_, _)
FindAllDRD(s, i) ==
    IF i > Len(s) THEN {}
    ELSE LET j == RunEnd(s, i, Digits)
         IN  IF j <= Len(s) /\ s[j] = "R"
             THEN LET k == RunEnd(s, j + 1, Digits)
                  IN  {SubSeq(s, i, k - 1)} \cup FindAllDRD(s, k)
             ELSE FindAllDRD(s, i + 1)

\* re.findall(r'R\d+', s) from index i on
RECURSIVE FindAllRD(_, _)
FindAllRD(s, i) ==
    IF i > Len(s) THEN {}
    ELSE IF s[i] = "R" /\ i < Len(s) /\ s[i + 1] \in Digits
         THEN LET k == RunEnd(s, i + 1, Digits)
              IN  {SubSeq(s, i, k - 1)} \cup FindAllRD(s, k)
         ELSE FindAllRD(s, i + 1)

\* extract_patterns: the set whose listing list(set(patterns)) returns
extract_patterns(part_number) ==
    DigitWindows(part_number, 3) \cup DigitWindows(part_number, 4)
        \cup FindAllDRD(part_number, 1) \cup FindAllRD(part_number, 1)

\* every listing of a finite set: the orders in which a Python set, a
\* directory listing or a pool of finished futures may be iterated
Listings(S) ==
    {f \in [1..Cardinality(S) -> S] : \A i, j \in 1..Cardinality(S) : f[i] = f[j] => i = j}

\* extract_patterns without its first test: whatever it is given is read
\* as str(part_number)
ExtractPatternsOfStr(part_number) == extract_patterns(Str(part_number))

\* extract_patterns called on a cell: lines 67-68 return [] for NaN and for
\* what is not a str
ExtractPatternsCall(part_number) ==
    IF part_number.na \/ ~IsStr(part_number) THEN {}
    ELSE extract_patterns(part_number.s)

\* index of the first "R" of a pattern that holds one
FirstR(p) == CHOOSE i \in 1..Len(p) : p[i] = "R" /\ \A j \in 1..(i - 1) : p[j] # "R"

\* float('0.' + d) and float(b + '.' + a) for digit strings
DecimalOf(before, after) == PyFloat(IntOf(before \o after), 0 - Len(after))

calculate_values(pattern) ==
    IF \E i \in 1..Len(pattern) : pattern[i] = "R"
    THEN IF pattern[1] = "R"
         THEN LET numeric_part == SubSeq(pattern, 2, Len(pattern))
              IN  IF Len(numeric_part) > 0
                  THEN <<DecimalOf(<<"0">>, numeric_part)>>
                  ELSE <<>>
         ELSE LET r == FirstR(pattern)
                  p0 == SubSeq(pattern, 1, r - 1)
                  p1 == SubSeq(pattern, r + 1, Len(pattern))
              IN  IF \E i \in 1..Len(p1) : p1[i] = "R"
                  THEN <<>>
                  ELSE <<DecimalOf(p0, IF Len(p1) > 0 THEN p1 ELSE <<"0">>)>>
    ELSE IF IsDigitStr(pattern) /\ Len(pattern) \in {3, 4}
    THEN LET first_digits == PyInt(IntOf(SubSeq(pattern, 1, Len(pattern) - 1)))
             last_digit == DigitVal(pattern[Len(pattern)])
             first_digit == DigitVal(pattern[1])
             remaining_digits == PyInt(IntOf(SubSeq(pattern, 2, Len(pattern))))
         IN  <<TimesPow10(first_digits, last_digit, TRUE)>>
             \o (IF last_digit \in {7, 9}
                 THEN <<TimesPow10(first_digits, -1, FALSE), TimesPow10(first_digits, -3, FALSE)>>
                 ELSE IF last_digit = 8
                 THEN <<TimesPow10(first_digits, -2, FALSE)>>
                 ELSE <<>>)
             \o <<TimesPow10(remaining_digits, first_digit, TRUE)>>
    ELSE <<>>

\* the exponent of ten of each unit of conversion_factors; 0 for any other
UnitExp(unit) ==
    CASE unit = <<"p", "f">> -> 0
      [] unit = <<"n", "f">> -> 3
      [] unit = <<"u", "f">> -> 6
      [] unit = <<"µ", "f">> -> 6
      [] unit = <<"m", "f">> -> 9
      [] unit = <<"f">> -> 12
      [] OTHER -> 0

convert_to_pf(value, unit) ==
    IF IsZero(value) THEN PyInt(0)
    ELSE TimesPow10(value, UnitExp(Lower(unit)), value.int)

\* re.search(cls-run, s): [found, text]; the first maximal run of cls
SearchRun(s, cls) ==
    LET hits == {i \in 1..Len(s) : s[i] \in cls}
    IN  IF hits = {} THEN [found |-> FALSE, text |-> <<>>]
        ELSE LET i == CHOOSE h \in hits : \A g \in hits : h <= g
             IN  [found |-> TRUE, text |-> SubSeq(s, i, RunEnd(s, i, cls) - 1)]

\* parse_value_column: [raised, numeric, unit]; raised where float() raises
parse_value_column(value_str) ==
    IF value_str.na
    THEN [raised |-> FALSE, numeric |-> PyInt(0), unit |-> <<"p", "f">>]
    ELSE LET numeric_match == SearchRun(Str(value_str), Digits \cup {"."})
             unit_match == SearchRun(Str(value_str), Letters)
             parsed == ParseFloat(numeric_match.text)
         IN  IF ~numeric_match.found
             THEN [raised |-> FALSE, numeric |-> PyInt(0), unit |-> <<"p", "f">>]
             ELSE IF ~parsed.ok
             THEN [raised |-> TRUE, numeric |-> PyInt(0), unit |-> <<>>]
             ELSE [raised |-> FALSE, numeric |-> parsed.val,
                   unit |-> IF unit_match.found THEN Lower(unit_match.text) ELSE <<"p", "f">>]

\* the two readings in the other order: the microfarad one first
UnitVariantsMicrofaradFirst(pf_value) ==
    (IF ~IsZero(pf_value)
     THEN <<[value |-> TimesPow10(pf_value, -6, FALSE), unit |-> <<"u", "f">>]>>
     ELSE <<>>)
        \o <<[value |-> pf_value, unit |-> <<"p", "f">>]>>

generate_unit_variants(pf_value) ==
    <<[value |-> pf_value, unit |-> <<"p", "f">>]>>
        \o (IF ~IsZero(pf_value)
            THEN <<[value |-> TimesPow10(pf_value, -6, FALSE), unit |-> <<"u", "f">>]>>
            ELSE <<>>)

\* abs(variant_pf - target_pf) < max(1e-6, target_pf * 1e-10)
Within(variant_pf, target_pf) ==
    LET floor == PyFloat(1, -6)
        rel == TimesPow10(target_pf, -10, FALSE)
        tol == IF NumLess(floor, rel) THEN rel ELSE floor
        hi == IF NumLess(variant_pf, target_pf) THEN target_pf ELSE variant_pf
        lo == IF NumLess(variant_pf, target_pf) THEN variant_pf ELSE target_pf
    IN  IF variant_pf.m = target_pf.m /\ variant_pf.e = target_pf.e THEN TRUE
        ELSE IF IsZero(lo) THEN NumLess(hi, tol)
        ELSE IF Mag(hi) - Mag(lo) >= 2 /\ Mag(hi) >= -4 THEN FALSE
        ELSE NumLess(AbsDiff(hi, lo), tol)

\* f'{v:.6g}': six significant digits, the same text for an int and a float
Format6g(v) ==
    IF NumDigits(v.m) <= 6 THEN Norm(v.m, v.e, FALSE)
    ELSE LET k == NumDigits(v.m) - 6
         IN  Norm((v.m + 5 * Pow10(k - 1)) \div Pow10(k), v.e + k, FALSE)

\* all_calculated_values: calculate_values of each pattern, in listing order
RECURSIVE AllCalculated(_)
AllCalculated(patterns) ==
    IF Len(patterns) = 0 THEN <<>>
    ELSE calculate_values(Head(patterns)) \o AllCalculated(Tail(patterns))

\* the (value, unit) readings in the order the two nested loops visit them
RECURSIVE AllVariants(_)
AllVariants(values) ==
    IF Len(values) = 0 THEN <<>>
    ELSE generate_unit_variants(Head(values)) \o AllVariants(Tail(values))

\* a result row: the input row with the two appended columns
WithResult(row, exvalue, status) ==
    [PartNumber |-> row.PartNumber, Value |-> row.Value, Line |-> row.Line,
     ExValue |-> exvalue, Status |-> status]

Message(text) == [kind |-> text, vals |-> <<>>, unit |-> <<>>]

\* a process_single_row that parses the Value column before it looks at the
\* patterns
ParseTargetFirst(row, patterns) ==
    IF parse_value_column(row.Value).raised
    THEN [type |-> "raise", row |-> [message |-> Str(row.Value)]]
    ELSE [type |-> "unmatched", row |-> WithResult(row, Message("No patterns found"), "no_match")]

\* process_single_row on a row, with patterns the listing of its pattern set:
\* [type, row], type "raise" where the call raises (row then holds what
\* str(e) quotes)
process_single_row(row, patterns) ==
    IF Len(patterns) = 0
    THEN [type |-> "unmatched", row |-> WithResult(row, Message("No patterns found"), "no_match")]
    ELSE LET all_calculated_values == AllCalculated(patterns)
             target == parse_value_column(row.Value)
             target_pf == convert_to_pf(target.numeric, target.unit)
             variants == AllVariants(all_calculated_values)
             hits == {i \in 1..Len(variants) :
                        Within(convert_to_pf(variants[i].value, variants[i].unit), target_pf)}
         IN  IF Len(all_calculated_values) = 0
             THEN [type |-> "unmatched",
                   row |-> WithResult(row, Message("No values calculated"), "no_match")]
             ELSE IF target.raised
             THEN [type |-> "raise", row |-> [message |-> Str(row.Value)]]
             ELSE IF hits # {}
             THEN LET i == CHOOSE h \in hits : \A g \in hits : h <= g
                  IN  [type |-> "matched",
                       row |-> WithResult(row,
                                  [kind |-> "value", vals |-> <<variants[i].value>>,
                                   unit |-> variants[i].unit],
                                  "match")]
             ELSE [type |-> "unmatched",
                   row |-> WithResult(row,
                              [kind |-> "Calc",
                               vals |-> [i \in 1..Min2(5, Len(all_calculated_values)) |->
                                            Format6g(all_calculated_values[i])]
                                        \o <<Format6g(target_pf)>>,
                               unit |-> <<"p", "F">>],
                              "no_match")]

\* -------------------------------------------------------- resistor decoder
\* the characters in code-point order: str comparison and str.upper()
CodePoints == <<" ", "-", ".", "0", "1", "2", "3", "4", "5", "6", "7", "8", "9">>
                  \o UpperLetters \o LowerLetters

Ord(c) == CHOOSE i \in 1..Len(CodePoints) : CodePoints[i] = c

\* a < b for two str values
RECURSIVE StrLess(_, _)
StrLess(a, b) ==
    IF Len(b) = 0 THEN FALSE
    ELSE IF Len(a) = 0 THEN TRUE
    ELSE IF Head(a) # Head(b) THEN Ord(Head(a)) < Ord(Head(b))
    ELSE StrLess(Tail(a), Tail(b))

\* str.upper() on one character
UpperChar(c) ==
    IF \E i \in 1..26 : LowerLetters[i] = c
    THEN UpperLetters[CHOOSE i \in 1..26 : LowerLetters[i] = c]
    ELSE c

Upper(s) == [i \in 1..Len(s) |-> UpperChar(s[i])]

\* str.strip(): the blanks at both ends removed
RECURSIVE Strip(_)
Strip(s) ==
    IF Len(s) = 0 THEN s
    ELSE IF Head(s) = " " THEN Strip(Tail(s))
    ELSE IF s[Len(s)] = " " THEN Strip(SubSeq(s, 1, Len(s) - 1))
    ELSE s

\* str(n) of a natural number
RECURSIVE StrOfInt(_)
StrOfInt(n) ==
    IF n < 10 THEN <<CodePoints[n + 4]>>
    ELSE StrOfInt(n \div 10) \o <<CodePoints[(n % 10) + 4]>>

UpperSet == {UpperLetters[i] : i \in 1..26}

\* code[i:j] with Python's 0-based, end-exclusive, clamped indices
Slice(code, i, j) == SubSeq(code, i + 1, Min2(j, Len(code)))

\* the (i, length) pairs of a window loop, in the order the loops visit
\* them: for i in range(stop): for length in range(lo, hi(i))
RECURSIVE WindowLoop(_, _, _, _, _)
WindowLoop(i, stop, lo, cap, len) ==
    IF i >= stop THEN <<>>
    ELSE LET hi == Min2(cap, len - i + 1)
         IN  [k \in 1..(IF hi > lo THEN hi - lo ELSE 0) |-> [i |-> i, length |-> lo + k - 1]]
                \o WindowLoop(i + 1, stop, lo, cap, len)

\* the entry every rule appends to results
Candidate(pattern, type, rule, value, position, base_digits, multiplier_char, multiplier_value) ==
    [pattern |-> pattern, type |-> type, rule |-> rule, value |-> value, unit |-> "Ohm",
     position |-> position, base_digits |-> base_digits,
     multiplier_char |-> multiplier_char, multiplier_value |-> multiplier_value]

\* re.match(r'^R(\d{1,4})$', s)
MatchLeading(s) ==
    Len(s) \in 2..5 /\ s[1] = "R" /\ IsDigitStr(Tail(s))

\* re.match(r'^(\d{1,3})R(\d{1,3})$', s): the index of R, 0 when no match
MiddleR(s) ==
    LET rs == {r \in 2..4 : r < Len(s) /\ s[r] = "R"
                            /\ IsDigitStr(SubSeq(s, 1, r - 1))
                            /\ Len(s) - r <= 3
                            /\ IsDigitStr(SubSeq(s, r + 1, Len(s)))}
    IN  IF rs = {} THEN 0 ELSE CHOOSE r \in rs : TRUE

\* re.match(r'^(\d{1,3})R$', s)
MatchTrailing(s) ==
    Len(s) \in 2..4 /\ s[Len(s)] = "R" /\ IsDigitStr(SubSeq(s, 1, Len(s) - 1))

\* the value of the leading form: one digit is read as 0.0d
LeadingValue(digits) ==
    IF Len(digits) = 1 THEN DecimalOf(<<"0">>, <<"0">> \o digits)
    ELSE DecimalOf(<<"0">>, digits)

RECURSIVE Flatten(_)
Flatten(lists) ==
    IF Len(lists) = 0 THEN <<>> ELSE Head(lists) \o Flatten(Tail(lists))

parse_r_decimal_patterns(code) ==
    LET n == Len(code)
        leading == [k \in 1..(IF n > 1 THEN n - 1 ELSE 0) |->
            LET i == k - 1
                s == IF i + 5 <= n THEN Slice(code, i, i + 5) ELSE Slice(code, i, n)
                digits == Tail(s)
            IN  IF MatchLeading(s)
                THEN <<Candidate(<<"R">> \o digits, "r-decimal", <<"R-Decimal-Leading">>,
                                 LeadingValue(digits), i, <<"0", ".">> \o digits,
                                 "R", PyInt(1))>>
                ELSE <<>>]
        w2 == WindowLoop(0, n - 2, 3, 6, n)
        middle == [k \in 1..Len(w2) |->
            LET substring == Slice(code, w2[k].i, w2[k].i + w2[k].length)
                r == MiddleR(substring)
                before == SubSeq(substring, 1, r - 1)
                after == SubSeq(substring, r + 1, Len(substring))
            IN  IF r > 0
                THEN <<Candidate(substring, "r-decimal", <<"R-Decimal-Middle">>,
                                 DecimalOf(before, after), w2[k].i,
                                 before \o <<".">> \o after, "R", PyInt(1))>>
                ELSE <<>>]
        w3 == WindowLoop(0, n - 1, 2, 5, n)
        trailing == [k \in 1..Len(w3) |->
            LET substring == Slice(code, w3[k].i, w3[k].i + w3[k].length)
                digits == SubSeq(substring, 1, Len(substring) - 1)
            IN  IF MatchTrailing(substring)
                THEN <<Candidate(substring, "r-decimal", <<"R-Decimal-Trailing">>,
                                 DecimalOf(digits, <<"0">>), w3[k].i,
                                 digits \o <<".", "0">>, "R", PyInt(1))>>
                ELSE <<>>]
    IN  Flatten(leading) \o Flatten(middle) \o Flatten(trailing)

\* the shape of a 4-character window: which of the four regular expressions
\* of the 4-digit rules matches it ("" when none does)
Shape(s) ==
    IF Len(s) # 4 THEN ""
    ELSE IF IsDigitStr(SubSeq(s, 1, 3)) /\ s[4] \in UpperSet THEN "DDDL"
    ELSE IF s[1] \in UpperSet /\ IsDigitStr(SubSeq(s, 2, 4)) THEN "LDDD"
    ELSE IF IsDigitStr(SubSeq(s, 1, 2)) /\ s[3] \in UpperSet /\ s[4] \in Digits THEN "DDLD"
    ELSE IF s[1] \in Digits /\ s[2] \in UpperSet /\ IsDigitStr(SubSeq(s, 3, 4)) THEN "DLDD"
    ELSE ""

\* the letter of a window of that shape
ShapeChar(s, shape) ==
    CASE shape = "DDDL" -> s[4] [] shape = "LDDD" -> s[1]
      [] shape = "DDLD" -> s[3] [] shape = "DLDD" -> s[2]

\* self.rule1_multipliers, as exponents of ten
rule1_multipliers ==
    [c \in {"J", "K", "L", "M", "N", "P"} |->
        CASE c = "J" -> -1 [] c = "K" -> -2 [] c = "L" -> -3
          [] c = "M" -> -4 [] c = "N" -> -5 [] c = "P" -> -6]

rule2_no_multiplier == {"A", "R", "W", "D", "G", "J", "M"}
rule2_1k_multiplier == {"B", "U", "Y", "E", "H", "K", "N"}
rule2_1m_multiplier == {"C", "V", "Z", "F", "T", "L", "P"}

parse_4digit_rule1(code) ==
    Flatten([k \in 1..(IF Len(code) > 3 THEN Len(code) - 3 ELSE 0) |->
        LET i == k - 1
            substring == Slice(code, i, i + 4)
            shape == Shape(substring)
            char == ShapeChar(substring, shape)
            \* (float(d), c, d) for DDDL and LDDD, (float(f"{b}.{a}"), c, f"{b}.{a}") otherwise
            base_digits == CASE shape = "DDDL" -> SubSeq(substring, 1, 3)
                             [] shape = "LDDD" -> SubSeq(substring, 2, 4)
                             [] shape = "DDLD" -> SubSeq(substring, 1, 2) \o <<".">> \o <<substring[4]>>
                             [] shape = "DLDD" -> <<substring[1]>> \o <<".">> \o SubSeq(substring, 3, 4)
            base_value == ParseFloat(base_digits).val
        IN  IF shape # "" /\ char \in DOMAIN rule1_multipliers
            THEN <<Candidate(substring, "4-digit-rule1", <<"Rule1", char>>,
                             TimesPow10(base_value, rule1_multipliers[char], FALSE), i,
                             base_digits, char, PyFloat(1, rule1_multipliers[char]))>>
            ELSE <<>>])

parse_4digit_rule2(code) ==
    Flatten([k \in 1..(IF Len(code) > 3 THEN Len(code) - 3 ELSE 0) |->
        LET i == k - 1
            substring == Slice(code, i, i + 4)
            shape == Shape(substring)
            char == ShapeChar(substring, shape)
            base_value == CASE shape = "DDDL" -> SubSeq(substring, 1, 3) \o <<".", "0">>
                            [] shape = "LDDD" -> <<"0", ".">> \o SubSeq(substring, 2, 4)
                            [] shape = "DDLD" -> SubSeq(substring, 1, 2) \o <<".">> \o <<substring[4]>>
                            [] shape = "DLDD" -> <<substring[1]>> \o <<".">> \o SubSeq(substring, 3, 4)
            exp == IF char \in rule2_no_multiplier THEN 0
                   ELSE IF char \in rule2_1k_multiplier THEN 3 ELSE 6
            rule_type == IF char \in rule2_no_multiplier THEN "no-multiplier"
                         ELSE IF char \in rule2_1k_multiplier THEN "1k-multiplier"
                         ELSE "1m-multiplier"
        IN  IF shape # "" /\ char \in rule2_no_multiplier \cup rule2_1k_multiplier
                                        \cup rule2_1m_multiplier
            THEN <<Candidate(substring, "4-digit-rule2", <<"Rule2", char, rule_type>>,
                             TimesPow10(ParseFloat(base_value).val, exp, FALSE), i,
                             base_value, char,
                             IF exp = 0 THEN PyInt(1) ELSE PyFloat(1, exp))>>
            ELSE <<>>])

\* the loop without the test multiplier <= 6
TraditionalWindowsAnyExponent(code, w, type, rule) ==
    Flatten([k \in 1..(IF Len(code) >= w THEN Len(code) - w + 1 ELSE 0) |->
        LET i == k - 1
            substring == Slice(code, i, i + w)
            base == IntOf(SubSeq(substring, 1, w - 1))
            multiplier == DigitVal(substring[w])
        IN  IF IsDigitStr(substring)
            THEN <<Candidate(substring, type, <<rule>>,
                             TimesPow10(PyInt(base), multiplier, TRUE), i,
                             StrOfInt(base), substring[w],
                             TimesPow10(PyInt(1), multiplier, TRUE))>>
            ELSE <<>>])

\* one of the two loops of parse_traditional_patterns, for windows of width w
TraditionalWindows(code, w, type, rule) ==
    Flatten([k \in 1..(IF Len(code) >= w THEN Len(code) - w + 1 ELSE 0) |->
        LET i == k - 1
            substring == Slice(code, i, i + w)
            base == IntOf(SubSeq(substring, 1, w - 1))
            multiplier == DigitVal(substring[w])
        IN  IF IsDigitStr(substring) /\ multiplier <= 6
            THEN <<Candidate(substring, type, <<rule>>,
                             TimesPow10(PyInt(base), multiplier, TRUE), i,
                             StrOfInt(base), substring[w],
                             TimesPow10(PyInt(1), multiplier, TRUE))>>
            ELSE <<>>])

parse_traditional_patterns(code) ==
    TraditionalWindows(code, 3, "3-digit-traditional", "Traditional-3digit")
        \o TraditionalWindows(code, 4, "4-digit-traditional", "Traditional-4digit")

\* the "Remove duplicates" loop: the first entry of each (pattern, type, rule)
RECURSIVE RemoveDuplicates(_, _)
RemoveDuplicates(results, seen) ==
    IF Len(results) = 0 THEN <<>>
    ELSE LET result == Head(results)
             key == <<result.pattern, result.type, result.rule>>
         IN  IF key \in seen THEN RemoveDuplicates(Tail(results), seen)
             ELSE <<result>> \o RemoveDuplicates(Tail(results), seen \cup {key})

\* the sort key (position, pattern): a before b
KeyLess(a, b) ==
    \/ a.position < b.position
    \/ a.position = b.position /\ StrLess(a.pattern, b.pattern)

\* list.sort: stable, entries with equal keys keep their order
RECURSIVE InsertSorted(_, _)
InsertSorted(sorted, x) ==
    IF Len(sorted) = 0 THEN <<x>>
    ELSE IF KeyLess(x, Head(sorted)) THEN <<x>> \o sorted
    ELSE <<Head(sorted)>> \o InsertSorted(Tail(sorted), x)

RECURSIVE SortByPosition(_)
SortByPosition(results) ==
    IF Len(results) = 0 THEN <<>>
    ELSE InsertSorted(SortByPosition(SubSeq(results, 1, Len(results) - 1)),
                      results[Len(results)])

parse_all_resistance_codes_enhanced(code_cell) ==
    LET code == Strip(Upper(Str(code_cell)))
    IN  IF Len(code) = 0 \/ code = <<"N", "A", "N">> THEN <<>>
        ELSE SortByPosition(RemoveDuplicates(
                parse_r_decimal_patterns(code) \o parse_4digit_rule1(code)
                    \o parse_4digit_rule2(code) \o parse_traditional_patterns(code), {}))

\* ----------------------------------------------------- resistor matcher
\* an optional float: None, or a number
None == [none |-> TRUE, val |-> PyInt(0)]
Some(v) == [none |-> FALSE, val |-> v]

\* the exponent of ten of each unit of unit_multipliers; 0 for any other
UnitMultiplierExp(unit) ==
    CASE unit = <<"O", "H", "M">> -> 0
      [] unit = <<"K", "O", "H", "M">> -> 3
      [] unit = <<"M", "O", "H", "M">> -> 6
      [] unit = <<"L", "O", "H", "M">> -> -2
      [] OTHER -> 0

\* value_str.replace(" ", "")
RemoveBlanks(s) == SelectSeq(s, LAMBDA c : c # " ")

\* convert_to_ohm on the str the callers pass: None unless the text, blanks
\* removed and upper-cased, matches ^([0-9]*\.?[0-9]+)([A-Z]+)$
convert_to_ohm(text) ==
    LET value_str == Upper(RemoveBlanks(text))
        p == RunEnd(value_str, 1, Digits)
        dotted == p <= Len(value_str) /\ value_str[p] = "."
        q == IF dotted THEN RunEnd(value_str, p + 1, Digits) ELSE p
        val == SubSeq(value_str, 1, q - 1)
        unit == SubSeq(value_str, q, Len(value_str))
        matched == /\ IF dotted THEN q > p + 1 ELSE p > 1
                   /\ Len(unit) > 0
                   /\ \A i \in 1..Len(unit) : unit[i] \in UpperSet
    IN  IF ~matched THEN None
        ELSE Some(TimesPow10(ParseFloat(val).val, UnitMultiplierExp(unit), FALSE))

\* abs(parsed_value - target_ohm), where the two are less than two orders of
\* magnitude apart (the only case in which either test of the loop can pass)
Close(a, b) ==
    \/ (a.m = b.m /\ a.e = b.e)
    \/ (~IsZero(a) /\ ~IsZero(b) /\ Mag(a) - Mag(b) \in {-1, 0, 1})

\* difference < 1e-10
IsExact(parsed_value, target_ohm) ==
    Close(parsed_value, target_ohm)
        /\ NumLess(AbsDiff(parsed_value, target_ohm), PyFloat(1, -10))

\* relative_diff < 0.001, with relative_diff = difference / max(target_ohm,
\* parsed_value), or inf when that maximum is not positive
IsNear(parsed_value, target_ohm) ==
    LET hi == IF NumLess(parsed_value, target_ohm) THEN target_ohm ELSE parsed_value
    IN  /\ ~IsZero(hi)
        /\ Close(parsed_value, target_ohm)
        /\ NumLess(TimesPow10(AbsDiff(parsed_value, target_ohm), 3, FALSE), hi)

\* the loop returning the first entry within the relative tolerance, without
\* looking at the entries after it
RECURSIVE FirstNearLoop(_, _, _, _, _)
FirstNearLoop(parsed_results, k, target_ohm, best_match, min_difference) ==
    IF k > Len(parsed_results) THEN best_match
    ELSE IF \/ IsExact(parsed_results[k].value, target_ohm)
            \/ IsNear(parsed_results[k].value, target_ohm)
    THEN [none |-> FALSE, result |-> parsed_results[k]]
    ELSE FirstNearLoop(parsed_results, k + 1, target_ohm, best_match, min_difference)

\* the loop without the test difference < min_difference: every entry within
\* the relative tolerance replaces the one held
RECURSIVE LastNearLoop(_, _, _, _, _)
LastNearLoop(parsed_results, k, target_ohm, best_match, min_difference) ==
    IF k > Len(parsed_results) THEN best_match
    ELSE IF IsExact(parsed_results[k].value, target_ohm)
    THEN [none |-> FALSE, result |-> parsed_results[k]]
    ELSE IF IsNear(parsed_results[k].value, target_ohm)
    THEN LastNearLoop(parsed_results, k + 1, target_ohm,
                      [none |-> FALSE, result |-> parsed_results[k]], min_difference)
    ELSE LastNearLoop(parsed_results, k + 1, target_ohm, best_match, min_difference)

\* the loop of find_best_match from entry k on, with the best_match and
\* min_difference held so far (min_difference None stands for inf)
RECURSIVE BestMatchLoop(_, _, _, _, _)
BestMatchLoop(parsed_results, k, target_ohm, best_match, min_difference) ==
    IF k > Len(parsed_results) THEN best_match
    ELSE LET result == parsed_results[k]
             parsed_value == result.value
         IN  IF IsExact(parsed_value, target_ohm)
             THEN [none |-> FALSE, result |-> result]
             ELSE IF /\ IsNear(parsed_value, target_ohm)
                     /\ (min_difference.none
                         \/ NumLess(AbsDiff(parsed_value, target_ohm), min_difference.val))
             THEN BestMatchLoop(parsed_results, k + 1, target_ohm,
                                [none |-> FALSE, result |-> result],
                                Some(AbsDiff(parsed_value, target_ohm)))
             ELSE BestMatchLoop(parsed_results, k + 1, target_ohm, best_match, min_difference)

\* what find_best_match returns when it returns None
NoMatch == [none |-> TRUE, result |-> <<>>]

find_best_match(parsed_results, target_ohm) ==
    IF Len(parsed_results) = 0 \/ target_ohm.none THEN NoMatch
    ELSE BestMatchLoop(parsed_results, 1, target_ohm.val, NoMatch, None)

\* ---------------------------------------------------------------- pipeline
\* every result process_single_row may return for a row, over the listings
\* of its pattern set
RowOutcomes(row) ==
    {process_single_row(row, l) : l \in Listings(extract_patterns(Str(row.PartNumber)))}

\* the row process_batch records for a future whose result() raises
ErrorRow(message) == [Error |-> message, ExValue |-> Message("Error"), Status |-> "error"]

\* the as_completed loop without its except clause doing anything: a row
\* whose result() raises leaves no row behind
RECURSIVE CollectResultsDroppingRaised(_, _, _, _)
CollectResultsDroppingRaised(results, order, batch_matched, batch_unmatched) ==
    IF Len(order) = 0 THEN [matched |-> batch_matched, unmatched |-> batch_unmatched]
    ELSE LET r == results[Head(order)]
         IN  IF r.type = "matched"
             THEN CollectResultsDroppingRaised(results, Tail(order),
                                               Append(batch_matched, r.row), batch_unmatched)
             ELSE IF r.type = "unmatched"
             THEN CollectResultsDroppingRaised(results, Tail(order), batch_matched,
                                               Append(batch_unmatched, r.row))
             ELSE CollectResultsDroppingRaised(results, Tail(order), batch_matched,
                                               batch_unmatched)

\* the as_completed loop of process_batch: results[i] is the outcome of row
\* i of the batch, order the order in which the futures are yielded
RECURSIVE CollectResults(_, _, _, _)
CollectResults(results, order, batch_matched, batch_unmatched) ==
    IF Len(order) = 0 THEN [matched |-> batch_matched, unmatched |-> batch_unmatched]
    ELSE LET r == results[Head(order)]
         IN  IF r.type = "matched"
             THEN CollectResults(results, Tail(order), Append(batch_matched, r.row), batch_unmatched)
             ELSE IF r.type = "unmatched"
             THEN CollectResults(results, Tail(order), batch_matched, Append(batch_unmatched, r.row))
             ELSE CollectResults(results, Tail(order), batch_matched,
                                 Append(batch_unmatched, ErrorRow(r.row.message)))

\* the input tables: rows of four kinds (a match, a match whose two equal
\* candidates print differently, no pattern, a Value float() rejects)
Catalogue ==
    << [PartNumber |-> Cell(<<"C", "4", "7", "2">>), Value |-> Cell(<<"4", ".", "7", "n", "F">>)],
       [PartNumber |-> Cell(<<"1", "0", "0", "-", "1", "0", "R", "0">>), Value |-> Cell(<<"1", "0", "p", "F">>)],
       [PartNumber |-> Cell(<<"C", "A", "P">>), Value |-> NaN],
       [PartNumber |-> Cell(<<"C", "4", "7", "2">>), Value |-> Cell(<<"1", ".", "2", ".", "3">>)] >>

InputRow(k, line) ==
    [PartNumber |-> Catalogue[k].PartNumber, Value |-> Catalogue[k].Value, Line |-> line]

InputTables ==
    {[i \in 1..n |-> InputRow(((o + i - 1) % Len(Catalogue)) + 1, i)] :
        n \in 0..MaxRows, o \in 0..(Len(Catalogue) - 1)}

\* every row an input table may hold, and its outcomes, worked out once
AllInputRows == {InputRow(k, line) : k \in 1..Len(Catalogue), line \in 1..MaxRows}

OutcomesOfRow == [row \in AllInputRows |-> RowOutcomes(row)]

\* the sequences that take their i-th element from the i-th of the sets
RECURSIVE OneOfEach(_)
OneOfEach(sets) ==
    IF Len(sets) = 0 THEN {<<>>}
    ELSE {<<x>> \o rest : x \in Head(sets), rest \in OneOfEach(Tail(sets))}

\* the outcomes of the rows of a batch: one outcome for each row
BatchOutcomes(batch_df) ==
    OneOfEach([i \in 1..Len(batch_df) |-> OutcomesOfRow[batch_df[i]]])

\* process_batch: every (batch_matched, batch_unmatched) it may return.  The
\* futures are kept in a dict and as_completed iterates a set of those that
\* finished, so rows are yielded in any order, for every num_threads.
process_batch(batch_df) ==
    {CollectResults(results, order, <<>>, <<>>) :
        results \in BatchOutcomes(batch_df), order \in Listings(1..Len(batch_df))}

\* a file: state "absent", "ok" (data is its content) or "corrupt" (opened
\* for writing and not completely written)
Absent == [state |-> "absent", data |-> <<>>]
FileOf(content) == [state |-> "ok", data |-> content]
Corrupt == [state |-> "corrupt", data |-> <<>>]

\* the record save_checkpoint dumps (the timestamp left out)
CheckpointRecord(p, matched, unmatched) ==
    <<p, Len(matched), Len(unmatched)>>

\* pd.concat of the batch files read in the order of the listing
RECURSIVE ConcatFiles(_)
ConcatFiles(files) ==
    IF Len(files) = 0 THEN <<>>
    ELSE Head(files).rows \o ConcatFiles(Tail(files))

VARIABLES
    input,                \* the table at input_file_path
    batch_size,
    checkpoint_interval,
    pc,                   \* where process_file stands
    processed_rows,       \* self.processed_rows
    matched_results,      \* self.matched_results
    unmatched_results,    \* self.unmatched_results
    skip,                 \* rows of the input sliced off at line 221
    start,                \* the loop variable of line 223
    batch_num,
    batch_matched,
    batch_unmatched,
    to_remove,            \* the files the removal loop of combine_batch_files has left
    checkpoint_file,      \* checkpoint.json
    matched_temp_file,    \* matched_temp.pkl
    unmatched_temp_file,  \* unmatched_temp.pkl
    batch_files,          \* the matched_batch_N / unmatched_batch_N files
    MatchedOutput,        \* MatchedOutput.xlsx
    notMatchedOutput,     \* notMatchedOutput.xlsx
    runs,                 \* process_file calls so far
    stop,                 \* how the current call stopped, if it did
    log,                  \* how each earlier call ended, and what a completed one left
    at_save               \* the checkpoint files as save_checkpoint found them

\* one row in the hands of the resistor tool (process_dataframe) or of the
\* capacitor matcher (process_single_row)
VARIABLES
    stage,                \* where the handling of the row stands
    part,                 \* the PartNumber cell of the row
    original_value,       \* the Value cell of the row
    converted_val,        \* convert_to_ohm(original_value)
    parsed,               \* parse_all_resistance_codes_enhanced(part)
    best_match,           \* find_best_match(parsed, converted_val)
    MatchStatus,          \* the MatchStatus of the row appended for the row
    patterns,             \* extract_patterns(part_number), as listed
    calculated,           \* calculate_values of each of the patterns
    returned              \* what process_single_row returns; the row process_dataframe appends

one_row == <<stage, part, original_value, converted_val, parsed, best_match, MatchStatus,
             patterns, calculated, returned>>

\* no row in hand
NoRow ==
    /\ stage = "none"
    /\ part = NaN
    /\ original_value = NaN
    /\ converted_val = None
    /\ parsed = <<>>
    /\ best_match = NoMatch
    /\ MatchStatus = ""
    /\ patterns = <<>>
    /\ calculated = <<>>
    /\ returned = [type |-> "", row |-> <<>>]

\* the worker pool of process_batch and the lock of process_file
VARIABLES
    num_threads,          \* self.num_threads
    futures,              \* the futures submitted so far, of every batch
    lock                  \* self.lock

pool == <<num_threads, futures, lock>>

\* no batch in the hands of the pool; num_threads as __init__ defaults it
NoPool ==
    /\ num_threads = 4
    /\ futures = <<>>
    /\ lock = "free"

memory == <<processed_rows, matched_results, unmatched_results, skip, start, batch_num,
            batch_matched, batch_unmatched, to_remove>>
config == <<input, batch_size, checkpoint_interval>>
checkpoint == <<checkpoint_file, matched_temp_file, unmatched_temp_file>>
outputs == <<MatchedOutput, notMatchedOutput>>
history == <<runs, stop, log>>
vars == <<config, pc, memory, checkpoint, batch_files, outputs, history, at_save, one_row,
         pool>>

NotStopped == [cause |-> "none", at |-> "none"]

\* CapacitorValueMatcher(...) on an output directory that holds nothing
Init ==
    /\ input \in InputTables
    /\ NoPool
    /\ batch_size \in 1..MaxBatch
    /\ checkpoint_interval \in 1..MaxInterval
    /\ pc = "load"
    /\ processed_rows = 0
    /\ matched_results = <<>>
    /\ unmatched_results = <<>>
    /\ skip = 0
    /\ start = 0
    /\ batch_num = 0
    /\ batch_matched = <<>>
    /\ batch_unmatched = <<>>
    /\ to_remove = <<>>
    /\ checkpoint_file = Absent
    /\ matched_temp_file = Absent
    /\ unmatched_temp_file = Absent
    /\ batch_files = {}
    /\ MatchedOutput = Absent
    /\ notMatchedOutput = Absent
    /\ runs = 1
    /\ stop = NotStopped
    /\ log = <<>>
    /\ at_save = <<Absent, Absent, Absent>>
    /\ NoRow

\* load_checkpoint: the three fields after the call and the value returned
load_checkpoint(ck, mt, ut, p, matched, unmatched) ==
    IF ck.state = "absent"
    THEN [processed_rows |-> p, matched_results |-> matched, unmatched_results |-> unmatched,
          returned |-> FALSE]
    ELSE IF ck.state = "corrupt"
    THEN [processed_rows |-> p, matched_results |-> matched, unmatched_results |-> unmatched,
          returned |-> FALSE]
    ELSE IF mt.state = "corrupt"
    THEN [processed_rows |-> ck.data[1], matched_results |-> matched,
          unmatched_results |-> unmatched, returned |-> FALSE]
    ELSE LET m == IF mt.state = "ok" THEN mt.data ELSE matched
         IN  IF ut.state = "corrupt"
             THEN [processed_rows |-> ck.data[1], matched_results |-> m,
                   unmatched_results |-> unmatched, returned |-> FALSE]
             ELSE [processed_rows |-> ck.data[1], matched_results |-> m,
                   unmatched_results |-> IF ut.state = "ok" THEN ut.data ELSE unmatched,
                   returned |-> TRUE]

\* batch_num set to 0 whatever the checkpoint says
FirstBatchNumZero(p, size) == 0

\* batch_num as process_file first sets it
FirstBatchNum(p, size) == p \div size

\* df after line 221
df == SubSeq(input, skip + 1, Len(input))

\* batch_df of the current iteration
batch_df == SubSeq(df, start + 1, Min2(start + batch_size, Len(df)))

\* to_excel on a name that leaves the batch number out
WriteBatchFileOneName(files, kind, num, rows) ==
    {f \in files : f.kind # kind} \cup {[kind |-> kind, num |-> 0, rows |-> rows]}

\* to_excel on a batch file name: the file is created or replaced
WriteBatchFile(files, kind, num, rows) ==
    {f \in files : ~(f.kind = kind /\ f.num = num)} \cup {[kind |-> kind, num |-> num, rows |-> rows]}

\* [f for f in os.listdir(output_dir) if f.startswith(prefix)]: the names in
\* any order
ListBatchFiles(files, kind) == Listings({f \in files : f.kind = kind})

\* the test of line 235
CheckpointDue(p, interval) == p % interval = 0

\* lines 217-222
LoadCheckpoint ==
    /\ pc = "load"
    /\ LET loaded == load_checkpoint(checkpoint_file, matched_temp_file, unmatched_temp_file,
                                     processed_rows, matched_results, unmatched_results)
       IN  /\ processed_rows' = loaded.processed_rows
           /\ matched_results' = loaded.matched_results
           /\ unmatched_results' = loaded.unmatched_results
           /\ skip' = IF loaded.processed_rows > 0 THEN loaded.processed_rows ELSE 0
           /\ batch_num' = FirstBatchNum(loaded.processed_rows, batch_size)
    /\ start' = 0
    /\ pc' = "loop"
    /\ UNCHANGED <<pool, one_row, config, batch_matched, batch_unmatched, to_remove, checkpoint, batch_files,
                   outputs, history, at_save>>

\* lines 223-226: the next batch goes through process_batch
ProcessBatch ==
    /\ pc = "loop"
    /\ start < Len(df)
    /\ \E result \in process_batch(batch_df) :
          /\ batch_matched' = result.matched
          /\ batch_unmatched' = result.unmatched
    /\ pc' = "write_matched"
    /\ UNCHANGED <<pool, one_row, config, processed_rows, matched_results, unmatched_results, skip, start,
                   batch_num, to_remove, checkpoint, batch_files, outputs, history, at_save>>

\* lines 227-228
WriteMatchedBatch ==
    /\ pc = "write_matched"
    /\ batch_files' = IF Len(batch_matched) > 0
                      THEN WriteBatchFile(batch_files, "matched", batch_num, batch_matched)
                      ELSE batch_files
    /\ pc' = "write_unmatched"
    /\ UNCHANGED <<pool, one_row, config, memory, checkpoint, outputs, history, at_save>>

\* lines 229-230
WriteUnmatchedBatch ==
    /\ pc = "write_unmatched"
    /\ batch_files' = IF Len(batch_unmatched) > 0
                      THEN WriteBatchFile(batch_files, "unmatched", batch_num, batch_unmatched)
                      ELSE batch_files
    /\ pc' = "update"
    /\ UNCHANGED <<pool, one_row, config, memory, checkpoint, outputs, history, at_save>>

\* lines 231-234, under self.lock
UpdateProgress ==
    /\ pc = "update"
    /\ processed_rows' = processed_rows + Len(batch_df)
    /\ matched_results' = matched_results \o batch_matched
    /\ unmatched_results' = unmatched_results \o batch_unmatched
    /\ pc' = "checkpoint"
    /\ UNCHANGED <<pool, one_row, config, skip, start, batch_num, batch_matched, batch_unmatched, to_remove,
                   checkpoint, batch_files, outputs, history, at_save>>

\* lines 235-239 when no checkpoint is due: on to the next batch
SkipCheckpoint ==
    /\ pc = "checkpoint"
    /\ ~CheckpointDue(processed_rows, checkpoint_interval)
    /\ batch_num' = batch_num + 1
    /\ start' = start + batch_size
    /\ pc' = "loop"
    /\ UNCHANGED <<pool, one_row, config, processed_rows, matched_results, unmatched_results, skip,
                   batch_matched, batch_unmatched, to_remove, checkpoint, batch_files, outputs,
                   history, at_save>>

\* line 236 and save_checkpoint lines 53-60: the record is written
SaveCheckpointRecord ==
    /\ pc = "checkpoint"
    /\ CheckpointDue(processed_rows, checkpoint_interval)
    /\ at_save' = checkpoint
    /\ checkpoint_file' = FileOf(CheckpointRecord(processed_rows, matched_results, unmatched_results))
    /\ pc' = "save_matched"
    /\ UNCHANGED <<pool, one_row, config, memory, matched_temp_file, unmatched_temp_file, batch_files, outputs,
                   history>>

\* save_checkpoint lines 61-62
SaveMatchedBuffer ==
    /\ pc = "save_matched"
    /\ matched_temp_file' = FileOf(matched_results)
    /\ pc' = "save_unmatched"
    /\ UNCHANGED <<pool, one_row, config, memory, checkpoint_file, unmatched_temp_file, batch_files, outputs,
                   history, at_save>>

\* save_checkpoint lines 63-64, then lines 237-239: on to the next batch
SaveUnmatchedBuffer ==
    /\ pc = "save_unmatched"
    /\ unmatched_temp_file' = FileOf(unmatched_results)
    /\ batch_num' = batch_num + 1
    /\ start' = start + batch_size
    /\ pc' = "loop"
    /\ UNCHANGED <<pool, one_row, config, processed_rows, matched_results, unmatched_results, skip,
                   batch_matched, batch_unmatched, to_remove, checkpoint_file, matched_temp_file,
                   batch_files, outputs, history, at_save>>

FileName(f) == [kind |-> f.kind, num |-> f.num]

RemoveFile(files, name) == {f \in files : FileName(f) # name}

\* combine_batch_files lines 200-204: the matched files are listed, read and
\* concatenated and MatchedOutput.xlsx is written
CombineMatched ==
    /\ pc = "loop"
    /\ start >= Len(df)
    /\ \E matched_files \in ListBatchFiles(batch_files, "matched") :
          IF Len(matched_files) > 0
          THEN /\ MatchedOutput' = FileOf(ConcatFiles(matched_files))
               /\ to_remove' = [i \in 1..Len(matched_files) |-> FileName(matched_files[i])]
               /\ pc' = "remove_matched"
          ELSE /\ UNCHANGED <<MatchedOutput, to_remove>>
               /\ pc' = "combine_unmatched"
    /\ UNCHANGED <<pool, one_row, config, processed_rows, matched_results, unmatched_results, skip, start,
                   batch_num, batch_matched, batch_unmatched, checkpoint, batch_files,
                   notMatchedOutput, history, at_save>>

\* lines 205-206: one os.remove
RemoveMatchedBatch ==
    /\ pc = "remove_matched"
    /\ batch_files' = RemoveFile(batch_files, Head(to_remove))
    /\ to_remove' = Tail(to_remove)
    /\ pc' = IF Len(to_remove) = 1 THEN "combine_unmatched" ELSE "remove_matched"
    /\ UNCHANGED <<pool, one_row, config, processed_rows, matched_results, unmatched_results, skip, start,
                   batch_num, batch_matched, batch_unmatched, checkpoint, outputs, history,
                   at_save>>

\* lines 208-212
CombineUnmatched ==
    /\ pc = "combine_unmatched"
    /\ \E unmatched_files \in ListBatchFiles(batch_files, "unmatched") :
          IF Len(unmatched_files) > 0
          THEN /\ notMatchedOutput' = FileOf(ConcatFiles(unmatched_files))
               /\ to_remove' = [i \in 1..Len(unmatched_files) |-> FileName(unmatched_files[i])]
               /\ pc' = "remove_unmatched"
          ELSE /\ UNCHANGED <<notMatchedOutput, to_remove>>
               /\ pc' = "remove_checkpoint"
    /\ UNCHANGED <<pool, one_row, config, processed_rows, matched_results, unmatched_results, skip, start,
                   batch_num, batch_matched, batch_unmatched, checkpoint, batch_files,
                   MatchedOutput, history, at_save>>

\* lines 213-214: one os.remove
RemoveUnmatchedBatch ==
    /\ pc = "remove_unmatched"
    /\ batch_files' = RemoveFile(batch_files, Head(to_remove))
    /\ to_remove' = Tail(to_remove)
    /\ pc' = IF Len(to_remove) = 1 THEN "remove_checkpoint" ELSE "remove_unmatched"
    /\ UNCHANGED <<pool, one_row, config, processed_rows, matched_results, unmatched_results, skip, start,
                   batch_num, batch_matched, batch_unmatched, checkpoint, outputs, history,
                   at_save>>

\* lines 241-243, checkpoint.json
RemoveCheckpointFile ==
    /\ pc = "remove_checkpoint"
    /\ checkpoint_file' = Absent
    /\ pc' = "remove_matched_temp"
    /\ UNCHANGED <<pool, one_row, config, memory, matched_temp_file, unmatched_temp_file, batch_files, outputs,
                   history, at_save>>

\* lines 241-243, matched_temp.pkl
RemoveMatchedTemp ==
    /\ pc = "remove_matched_temp"
    /\ matched_temp_file' = Absent
    /\ pc' = "remove_unmatched_temp"
    /\ UNCHANGED <<pool, one_row, config, memory, checkpoint_file, unmatched_temp_file, batch_files, outputs,
                   history, at_save>>

\* lines 241-243, unmatched_temp.pkl; process_file returns
RemoveUnmatchedTemp ==
    /\ pc = "remove_unmatched_temp"
    /\ unmatched_temp_file' = Absent
    /\ pc' = "done"
    /\ UNCHANGED <<pool, one_row, config, memory, checkpoint_file, matched_temp_file, batch_files, outputs,
                   history, at_save>>

\* what a failed open(..., 'w') and write may leave of a file: the file as
\* it was (the open failed) or a truncated one
AfterFailedWrite(file) == {file, Corrupt}

\* process_file has no try/except/finally: what is raised inside it
\* (KeyboardInterrupt, a kill, an exception) ends the call where it stands
Interrupt ==
    /\ pc \notin {"done", "stopped"}
    /\ runs < MaxRuns
    /\ stop' = [cause |-> "interrupt", at |-> pc]
    /\ pc' = "stopped"
    /\ UNCHANGED <<pool, one_row, config, memory, checkpoint, batch_files, outputs, runs, log, at_save>>

\* a write of save_checkpoint raises (lines 59-64): the record, the matched
\* buffer or the unmatched buffer
SaveCheckpointFails ==
    /\ runs < MaxRuns
    /\ \/ /\ pc = "checkpoint"
          /\ CheckpointDue(processed_rows, checkpoint_interval)
          /\ at_save' = checkpoint
          /\ checkpoint_file' \in AfterFailedWrite(checkpoint_file)
          /\ UNCHANGED <<matched_temp_file, unmatched_temp_file>>
       \/ /\ pc = "save_matched"
          /\ matched_temp_file' \in AfterFailedWrite(matched_temp_file)
          /\ UNCHANGED <<checkpoint_file, unmatched_temp_file, at_save>>
       \/ /\ pc = "save_unmatched"
          /\ unmatched_temp_file' \in AfterFailedWrite(unmatched_temp_file)
          /\ UNCHANGED <<checkpoint_file, matched_temp_file, at_save>>
    /\ stop' = [cause |-> "write_failed", at |-> pc]
    /\ pc' = "stopped"
    /\ UNCHANGED <<pool, one_row, config, memory, batch_files, outputs, runs, log>>

\* the part of process_file a position belongs to: the loop over the
\* batches (lines 217-239) or the combining and the removals (lines 240-243)
Phase(at) ==
    IF at \in {"load", "loop", "write_matched", "write_unmatched", "update", "checkpoint",
               "save_matched", "save_unmatched"}
    THEN "stopped in the loop"
    ELSE "stopped in the combining"

\* a new CapacitorValueMatcher on the same input, output directory and
\* configuration (lines 27-29), whose process_file is then called
NewMatcher ==
    /\ runs < MaxRuns
    /\ runs' = runs + 1
    /\ stop' = NotStopped
    /\ processed_rows' = 0
    /\ matched_results' = <<>>
    /\ unmatched_results' = <<>>
    /\ skip' = 0
    /\ start' = 0
    /\ batch_num' = 0
    /\ batch_matched' = <<>>
    /\ batch_unmatched' = <<>>
    /\ to_remove' = <<>>
    /\ at_save' = <<Absent, Absent, Absent>>
    /\ pc' = "load"
    /\ UNCHANGED <<pool, one_row, config, checkpoint, batch_files, outputs>>

\* the call that stopped is followed by a second call
Resume ==
    /\ pc = "stopped"
    /\ log' = Append(log, [end |-> Phase(stop.at), matched |-> Absent, unmatched |-> Absent])
    /\ NewMatcher

\* the call that completed is followed by a second call
Rerun ==
    /\ pc = "done"
    /\ log' = Append(log, [end |-> "done", matched |-> MatchedOutput,
                           unmatched |-> notMatchedOutput])
    /\ NewMatcher

\* the steps of an undisturbed process_file call
Step ==
    \/ LoadCheckpoint
    \/ ProcessBatch
    \/ WriteMatchedBatch
    \/ WriteUnmatchedBatch
    \/ UpdateProgress
    \/ SkipCheckpoint
    \/ SaveCheckpointRecord
    \/ SaveMatchedBuffer
    \/ SaveUnmatchedBuffer
    \/ CombineMatched
    \/ RemoveMatchedBatch
    \/ CombineUnmatched
    \/ RemoveUnmatchedBatch
    \/ RemoveCheckpointFile
    \/ RemoveMatchedTemp
    \/ RemoveUnmatchedTemp

\* calls that may be stopped and are then resumed
Next ==
    \/ Step
    \/ Interrupt
    \/ SaveCheckpointFails
    \/ Resume

Spec == Init /\ [][Next]_vars

\* an interrupt while the batches are being processed
InterruptInLoop ==
    /\ Phase(pc) = "stopped in the loop"
    /\ Interrupt

\* calls that may be interrupted in the loop over the batches and are then
\* resumed
NextResume ==
    \/ Step
    \/ InterruptInLoop
    \/ Resume

SpecResume == Init /\ [][NextResume]_vars

\* calls that complete and are then repeated
NextRerun ==
    \/ Step
    \/ Rerun

SpecRerun == Init /\ [][NextRerun]_vars

\* ------------------------------------------------------- the worker pool
\* one call of process_file on a clean output directory, with process_batch
\* taken apart into the submissions, the worker threads and the as_completed
\* loop, and the block under self.lock into its statements
PoolInputTables == {t \in InputTables : Len(t) <= MaxPoolRows}

InitWorkers ==
    /\ input \in PoolInputTables
    /\ batch_size \in 1..MaxBatch
    /\ checkpoint_interval \in 1..MaxInterval
    /\ num_threads \in 1..MaxThreads
    /\ futures = <<>>
    /\ lock = "free"
    /\ pc = "load"
    /\ processed_rows = 0
    /\ matched_results = <<>>
    /\ unmatched_results = <<>>
    /\ skip = 0
    /\ start = 0
    /\ batch_num = 0
    /\ batch_matched = <<>>
    /\ batch_unmatched = <<>>
    /\ to_remove = <<>>
    /\ checkpoint_file = Absent
    /\ matched_temp_file = Absent
    /\ unmatched_temp_file = Absent
    /\ batch_files = {}
    /\ MatchedOutput = Absent
    /\ notMatchedOutput = Absent
    /\ runs = 1
    /\ stop = NotStopped
    /\ log = <<>>
    /\ at_save = <<Absent, Absent, Absent>>
    /\ NoRow

\* the futures of a batch
FuturesOf(fs, num) == {k \in 1..Len(fs) : fs[k].chunk = num}

\* lines 223-225 and 183-185: the next batch is cut and handed to
\* process_batch, whose two lists start empty
EnterBatch ==
    /\ pc = "loop"
    /\ start < Len(df)
    /\ batch_matched' = <<>>
    /\ batch_unmatched' = <<>>
    /\ pc' = "submit"
    /\ UNCHANGED <<pool, one_row, config, processed_rows, matched_results, unmatched_results,
                   skip, start, batch_num, to_remove, checkpoint, batch_files, outputs,
                   history, at_save>>

\* line 187: executor.submit for the next row of row_data
Submit ==
    /\ pc = "submit"
    /\ LET n == Cardinality(FuturesOf(futures, batch_num))
       IN  /\ futures' = Append(futures,
                                [chunk |-> batch_num, row |-> batch_df[n + 1],
                                 state |-> "pending", result |-> [type |-> "", row |-> <<>>]])
           /\ pc' = IF n + 1 = Len(batch_df) THEN "collect" ELSE "submit"
    /\ UNCHANGED <<num_threads, lock, one_row, config, memory, checkpoint, batch_files,
                   outputs, history, at_save>>

\* a thread of the pool takes the oldest work item of the queue; the pool
\* runs at most max_workers threads
WorkerStart ==
    /\ \E k \in 1..Len(futures) :
          /\ futures[k].state = "pending"
          /\ \A j \in 1..(k - 1) : futures[j].state # "pending"
          /\ Cardinality({j \in 1..Len(futures) : futures[j].state = "running"}) < num_threads
          /\ futures' = [futures EXCEPT ![k].state = "running"]
    /\ UNCHANGED <<num_threads, lock, one_row, config, pc, memory, checkpoint, batch_files,
                   outputs, history, at_save>>

\* process_single_row returns or raises in its thread (lines 149-180): it
\* reads its row and writes no field of the matcher
WorkerReturn ==
    /\ \E k \in 1..Len(futures) :
          /\ futures[k].state = "running"
          /\ \E o \in OutcomesOfRow[futures[k].row] :
                futures' = [futures EXCEPT ![k].state = "finished", ![k].result = o]
    /\ UNCHANGED <<num_threads, lock, one_row, config, pc, memory, checkpoint, batch_files,
                   outputs, history, at_save>>

\* lines 188-196: as_completed yields a future that finished, and the main
\* thread appends its row to one of the two lists
YieldFuture ==
    /\ pc = "collect"
    /\ \E k \in FuturesOf(futures, batch_num) :
          /\ futures[k].state = "finished"
          /\ LET lists == CollectResults(<<futures[k].result>>, <<1>>, batch_matched,
                                         batch_unmatched)
             IN  /\ batch_matched' = lists.matched
                 /\ batch_unmatched' = lists.unmatched
          /\ futures' = [futures EXCEPT ![k].state = "yielded"]
    /\ UNCHANGED <<num_threads, lock, one_row, config, pc, processed_rows, matched_results,
                   unmatched_results, skip, start, batch_num, to_remove, checkpoint,
                   batch_files, outputs, history, at_save>>

\* the as_completed loop ends after one future
AnyYielded(fs, num) == \E k \in FuturesOf(fs, num) : fs[k].state = "yielded"

\* the as_completed loop ends when it has yielded every future it was given
AllYielded(fs, num) == \A k \in FuturesOf(fs, num) : fs[k].state = "yielded"

\* line 197: the with block is left and process_batch returns
LeaveExecutor ==
    /\ pc = "collect"
    /\ AllYielded(futures, batch_num)
    /\ pc' = "write_matched"
    /\ UNCHANGED <<pool, one_row, config, memory, checkpoint, batch_files, outputs, history,
                   at_save>>

\* line 231
AcquireLock ==
    /\ pc = "update"
    /\ lock = "free"
    /\ lock' = "held"
    /\ pc' = "count"
    /\ UNCHANGED <<num_threads, futures, one_row, config, memory, checkpoint, batch_files,
                   outputs, history, at_save>>

\* line 232
CountRows ==
    /\ pc = "count"
    /\ processed_rows' = processed_rows + Len(batch_df)
    /\ pc' = "extend_matched"
    /\ UNCHANGED <<pool, one_row, config, matched_results, unmatched_results, skip, start,
                   batch_num, batch_matched, batch_unmatched, to_remove, checkpoint,
                   batch_files, outputs, history, at_save>>

\* line 233
ExtendMatched ==
    /\ pc = "extend_matched"
    /\ matched_results' = matched_results \o batch_matched
    /\ pc' = "extend_unmatched"
    /\ UNCHANGED <<pool, one_row, config, processed_rows, unmatched_results, skip, start,
                   batch_num, batch_matched, batch_unmatched, to_remove, checkpoint,
                   batch_files, outputs, history, at_save>>

\* line 234, and the lock is released on leaving the with block
ExtendUnmatched ==
    /\ pc = "extend_unmatched"
    /\ unmatched_results' = unmatched_results \o batch_unmatched
    /\ lock' = "free"
    /\ pc' = "checkpoint"
    /\ UNCHANGED <<num_threads, futures, one_row, config, processed_rows, matched_results,
                   skip, start, batch_num, batch_matched, batch_unmatched, to_remove,
                   checkpoint, batch_files, outputs, history, at_save>>

NextWorkers ==
    \/ LoadCheckpoint
    \/ EnterBatch
    \/ Submit
    \/ WorkerStart
    \/ WorkerReturn
    \/ YieldFuture
    \/ LeaveExecutor
    \/ WriteMatchedBatch
    \/ WriteUnmatchedBatch
    \/ AcquireLock
    \/ CountRows
    \/ ExtendMatched
    \/ ExtendUnmatched
    \/ SkipCheckpoint
    \/ SaveCheckpointRecord
    \/ SaveMatchedBuffer
    \/ SaveUnmatchedBuffer
    \/ CombineMatched
    \/ RemoveMatchedBatch
    \/ CombineUnmatched
    \/ RemoveUnmatchedBatch
    \/ RemoveCheckpointFile
    \/ RemoveMatchedTemp
    \/ RemoveUnmatchedTemp

SpecWorkers == InitWorkers /\ [][NextWorkers]_vars

\* --------------------------------------------------- the resistor tool
pipeline == <<config, pc, memory, checkpoint, batch_files, outputs, history, at_save>>

\* no CapacitorValueMatcher at work
NoPipeline ==
    /\ input = <<>>
    /\ batch_size = 1
    /\ checkpoint_interval = 1
    /\ pc = "none"
    /\ processed_rows = 0
    /\ matched_results = <<>>
    /\ unmatched_results = <<>>
    /\ skip = 0
    /\ start = 0
    /\ batch_num = 0
    /\ batch_matched = <<>>
    /\ batch_unmatched = <<>>
    /\ to_remove = <<>>
    /\ checkpoint_file = Absent
    /\ matched_temp_file = Absent
    /\ unmatched_temp_file = Absent
    /\ batch_files = {}
    /\ MatchedOutput = Absent
    /\ notMatchedOutput = Absent
    /\ runs = 0
    /\ stop = NotStopped
    /\ log = <<>>
    /\ at_save = <<Absent, Absent, Absent>>

\* every text of at most n characters of chars
Texts(chars, n) == UNION {[1..k -> chars] : k \in 0..n}

\* the part numbers: every short text of these characters, and the codes
\* the tool documents
ResistorChars == {"2", "4", "7", "R", "K", "r"}

ExampleCodes ==
    { <<"4", "7", "2">>, <<"R", "0", "4", "7">>, <<"4", "7", "R", "0">>, <<"4", "R", "7">>,
      <<"3", "K", "3">>, <<"8", "2", "K">>, <<"2", "M", "2", "0">>, <<"R", "5">>,
      <<" ", "4", "7", "B", "2", " ">>, <<"1", "2", "3", "R", "4", "5", "6">>,
      <<"M", "C", "R", "1", "0", "0", "J", "Z", "H", "J", "S", "R", "0", "4", "7">>,
      <<"X", "Y", "Z", "4", "7", "0", "1", "G", "H", "I">>,
      <<"P", "A", "1", "2", "0", "6", "F", "R", "E", "4", "7", "0", "R", "0", "1", "2", "Z">>,
      <<"C", "H", "P", "1", "2", "0", "6", "L", "7", "5", "R", "0", "J", "N", "T">>,
      <<"T", "E", "S", "T", "1", "2", "3", "K", "4", "5", "6">>,
      <<"A", "B", "C", "4", "7", "B", "2", "D", "E", "F">> }

PartNumbers ==
    {NaN} \cup {Cell(t) : t \in Texts(ResistorChars, MaxCodeLen) \cup ExampleCodes}

\* the Value cells: absent, without a unit, malformed, and well-formed ones
ResistorValues ==
    {NaN, Cell(<<"4", "7">>), Cell(<<"4", ".", "7", ".", "O", "h", "m">>),
     Cell(<<"4", ".", "7", " ", "O", "h", "m">>), Cell(<<"4", ".", "7", " ", "K", "O", "h", "m">>)}

\* one row of the table handed to process_dataframe
InitResistor ==
    /\ NoPipeline
    /\ NoPool
    /\ stage = "row"
    /\ part \in PartNumbers
    /\ original_value \in ResistorValues
    /\ converted_val = None
    /\ parsed = <<>>
    /\ best_match = NoMatch
    /\ MatchStatus = ""
    /\ patterns = <<>>
    /\ calculated = <<>>
    /\ returned = [type |-> "", row |-> <<>>]

\* lines 387-389
ConvertValue ==
    /\ stage = "row"
    /\ converted_val' = convert_to_ohm(Strip(Str(original_value)))
    /\ stage' = "converted"
    /\ UNCHANGED <<pool, pipeline, part, original_value, parsed, best_match, MatchStatus,
                   patterns, calculated, returned>>

\* line 391
ParseCodes ==
    /\ stage = "converted"
    /\ parsed' = parse_all_resistance_codes_enhanced(part)
    /\ stage' = "parsed"
    /\ UNCHANGED <<pool, pipeline, part, original_value, converted_val, best_match, MatchStatus,
                   patterns, calculated, returned>>

\* the row of the table in hand: PartNumber, Value and one more column
ResistorRow ==
    [PartNumber |-> part, Value |-> original_value, Package |-> Cell(<<"0", "6", "0", "3">>)]

\* row.get(column, ""): the cell, or "" where the table has no such column
Get(row, column) == IF column \in DOMAIN row THEN row[column] ELSE Cell(<<>>)

\* lines 393-400
base_row ==
    [PartNumber |-> Cell(Str(part)),
     CompanyName |-> Get(ResistorRow, "CompanyName"),
     ProductLine |-> Get(ResistorRow, "ProductLine"),
     FeatureName |-> Get(ResistorRow, "FeatureName"),
     OriginalValue |-> Cell(Strip(Str(original_value))),
     OriginalOhm |-> converted_val]

\* dict.update: the columns of more replace or extend those of row
Update(row, more) ==
    [c \in DOMAIN row \cup DOMAIN more |-> IF c \in DOMAIN more THEN more[c] ELSE row[c]]

\* the columns taken from an entry of the list (lines 424-432, 441-449)
ParsedColumns(entry, status) ==
    [ParsedPattern |-> [kind |-> "pattern", vals |-> entry.pattern, unit |-> <<>>],
     ParsedType |-> entry.type,
     ParsedRule |-> entry.rule,
     ParsedValue |-> Some(entry.value),
     Position |-> entry.position,
     MatchStatus |-> status]

\* lines 402-417
NoPattern ==
    /\ stage = "parsed"
    /\ Len(parsed) = 0
    /\ MatchStatus' = "no_pattern"
    /\ returned' = [type |-> "no_match_rows",
                    row |-> Update(base_row,
                                   [ParsedPattern |-> Message("No Pattern Found"),
                                    ParsedType |-> "none",
                                    ParsedRule |-> <<"none">>,
                                    ParsedValue |-> None,
                                    Position |-> -1,
                                    MatchStatus |-> "no_pattern"])]
    /\ stage' = "appended"
    /\ UNCHANGED <<pool, pipeline, part, original_value, converted_val, parsed, best_match,
                   patterns, calculated>>

\* line 419
FindBestMatch ==
    /\ stage = "parsed"
    /\ Len(parsed) > 0
    /\ best_match' = find_best_match(parsed, converted_val)
    /\ stage' = "searched"
    /\ UNCHANGED <<pool, pipeline, part, original_value, converted_val, parsed, MatchStatus,
                   patterns, calculated, returned>>

\* lines 421-453: the row goes to match_rows with the columns of the best
\* match, or to no_match_rows with those of the first entry of the list
AppendRow ==
    /\ stage = "searched"
    /\ MatchStatus' = IF best_match.none THEN "no_match" ELSE "matched"
    /\ returned' = IF best_match.none
                   THEN [type |-> "no_match_rows",
                         row |-> Update(base_row, ParsedColumns(parsed[1], "no_match"))]
                   ELSE [type |-> "match_rows",
                         row |-> Update(base_row, ParsedColumns(best_match.result, "matched"))]
    /\ stage' = "appended"
    /\ UNCHANGED <<pool, pipeline, part, original_value, converted_val, parsed, best_match,
                   patterns, calculated>>

NextResistor == ConvertValue \/ ParseCodes \/ NoPattern \/ FindBestMatch \/ AppendRow

SpecResistor == InitResistor /\ [][NextResistor]_vars

\* ------------------------------------- one row of the capacitor matcher
CapacitorChars == {"0", "4", "7", "R"}

CapacitorCodes ==
    { <<"4", "7", "7">>, <<"4", "7", "9">>, <<"4", "7", "8">>, <<"4", "7", "2">>,
      <<"4", "0", "0">>, <<"1", "0", "0">>, <<"0", "R">>,
      <<"4", "7", "0", "1">>, <<"4", "7", "R", "7">>, <<"R", "4", "7", "7">>,
      <<"C", "4", "7", "2">>, <<"C", "A", "P">>,
      <<"1", "0", "0", "-", "1", "0", "R", "0">> }

CapacitorPartNumbers ==
    {NaN} \cup {Cell(t) : t \in Texts(CapacitorChars, MaxCapacitorLen) \cup CapacitorCodes}

\* the Value cells: absent, without a digit, one float() rejects, and
\* well-formed ones
CapacitorValues ==
    {NaN, Cell(<<"a", "b", "c">>), Cell(<<"1", ".", "2", ".", "3">>),
     Cell(<<"4", ".", "7", "n", "F">>), Cell(<<"1", "0", "p", "F">>), Cell(<<"4", ".", "7">>),
     Cell(<<"4", ".", "7", "u", "F">>)}

\* the row (idx, row) a worker is given
row_data == [PartNumber |-> part, Value |-> original_value, Line |-> 1]

InitCapacitor ==
    /\ NoPipeline
    /\ NoPool
    /\ stage = "row"
    /\ part \in CapacitorPartNumbers
    /\ original_value \in CapacitorValues
    /\ converted_val = None
    /\ parsed = <<>>
    /\ best_match = NoMatch
    /\ MatchStatus = ""
    /\ patterns = <<>>
    /\ calculated = <<>>
    /\ returned = [type |-> "", row |-> <<>>]

\* line 153: the set of patterns comes back as a list, in the order in which
\* this interpreter iterates the set
ExtractPatterns ==
    /\ stage = "row"
    /\ patterns' \in Listings(extract_patterns(Str(part)))
    /\ stage' = "extracted"
    /\ UNCHANGED <<pool, pipeline, part, original_value, converted_val, parsed, best_match,
                   MatchStatus, calculated, returned>>

\* lines 159-161
CalculateValues ==
    /\ stage = "extracted"
    /\ calculated' = [i \in 1..Len(patterns) |-> calculate_values(patterns[i])]
    /\ stage' = "calculated"
    /\ UNCHANGED <<pool, pipeline, part, original_value, converted_val, parsed, best_match,
                   MatchStatus, patterns, returned>>

\* lines 154-180: what the call returns, or that it raises
ReturnRow ==
    /\ stage = "calculated"
    /\ returned' = process_single_row(row_data, patterns)
    /\ stage' = "returned"
    /\ UNCHANGED <<pool, pipeline, part, original_value, converted_val, parsed, best_match,
                   MatchStatus, patterns, calculated>>

\* the same code decoded once more by the same interpreter: the same set,
\* built the same way, is iterated in the same order
DecodeAgain ==
    /\ stage = "returned"
    /\ patterns' = patterns
    /\ calculated' = [i \in 1..Len(patterns') |-> calculate_values(patterns'[i])]
    /\ stage' = "again"
    /\ UNCHANGED <<pool, pipeline, part, original_value, converted_val, parsed, best_match,
                   MatchStatus, returned>>

\* the same code decoded once more by another interpreter (a later run, a
\* resumed run): str hashes are salted per process, so the set may be
\* iterated in another order
DecodeInNewProcess ==
    /\ stage = "returned"
    /\ patterns' \in Listings(extract_patterns(Str(part)))
    /\ calculated' = [i \in 1..Len(patterns') |-> calculate_values(patterns'[i])]
    /\ stage' = "again"
    /\ UNCHANGED <<pool, pipeline, part, original_value, converted_val, parsed, best_match,
                   MatchStatus, returned>>

NextCapacitor ==
    ExtractPatterns \/ CalculateValues \/ ReturnRow \/ DecodeAgain \/ DecodeInNewProcess

SpecCapacitor == InitCapacitor /\ [][NextCapacitor]_vars

\* ------------------------------------------ find_best_match on any list
\* the values of the entries: a target, near misses on both sides of it,
\* and values far from it
MatchValues == {0, 81950, 82000, 82050, 82500, 1198802, 1201199}

MatchTargets == {None, Some(PyFloat(0, 0)), Some(PyFloat(82000, 0)), Some(PyFloat(1200000, 0))}

\* an entry of parsed_results with the value v at position i
Entry(v, i) ==
    Candidate(StrOfInt(v), "4-digit-traditional", <<"Traditional-4digit">>, PyInt(v), i,
              StrOfInt(v), "0", PyInt(1))

EntryLists ==
    UNION {{[i \in 1..n |-> Entry(vs[i], i - 1)] : vs \in [1..n -> MatchValues]} :
            n \in 0..MaxCandidates}

InitMatch ==
    /\ NoPipeline
    /\ NoPool
    /\ stage = "parsed"
    /\ part = NaN
    /\ original_value = NaN
    /\ converted_val \in MatchTargets
    /\ parsed \in EntryLists
    /\ best_match = NoMatch
    /\ MatchStatus = ""
    /\ patterns = <<>>
    /\ calculated = <<>>
    /\ returned = [type |-> "", row |-> <<>>]

NextMatch == NoPattern \/ FindBestMatch \/ AppendRow

SpecMatch == InitMatch /\ [][NextMatch]_vars

\* -------------------------------------------------- one row, either tool
\* one row of a table handed to the resistance tool or to the capacitor
\* matcher
InitBothTools ==
    /\ NoPipeline
    /\ NoPool
    /\ stage = "row"
    /\ part \in CapacitorPartNumbers
    /\ original_value \in CapacitorValues \cup ResistorValues
    /\ converted_val = None
    /\ parsed = <<>>
    /\ best_match = NoMatch
    /\ MatchStatus = ""
    /\ patterns = <<>>
    /\ calculated = <<>>
    /\ returned = [type |-> "", row |-> <<>>]

NextBothTools == NextResistor \/ NextCapacitor

SpecBothTools == InitBothTools /\ [][NextBothTools]_vars

\* ------------------------------------------------ the decoders on a cell
DecoderChars == {"4", "7", "R", "r", "K", "-", " "}

\* what a decoder may be handed: an empty cell, an empty string, numbers,
\* and every short text of these characters
DecoderInputs ==
    {NaN, Number(<<"4", "7", "2">>), Number(<<"4", "7", "0", "1">>),
     Number(<<"4", ".", "7">>), Number(<<"0">>)}
        \cup {Cell(t) : t \in Texts(DecoderChars, MaxCapacitorLen)}

InitDecode ==
    /\ NoPipeline
    /\ NoPool
    /\ stage = "code"
    /\ part \in DecoderInputs
    /\ original_value = NaN
    /\ converted_val = None
    /\ parsed = <<>>
    /\ best_match = NoMatch
    /\ MatchStatus = ""
    /\ patterns = <<>>
    /\ calculated = <<>>
    /\ returned = [type |-> "", row |-> <<>>]

\* extract_patterns(part) and calculate_values of each pattern
DecodeCapacitor ==
    /\ stage = "code"
    /\ patterns' \in Listings(ExtractPatternsCall(part))
    /\ calculated' = [i \in 1..Len(patterns') |-> calculate_values(patterns'[i])]
    /\ stage' = "capacitor decoded"
    /\ UNCHANGED <<pool, pipeline, part, original_value, converted_val, parsed, best_match,
                   MatchStatus, returned>>

\* parse_all_resistance_codes_enhanced(part)
DecodeResistor ==
    /\ stage = "code"
    /\ parsed' = parse_all_resistance_codes_enhanced(part)
    /\ stage' = "resistor decoded"
    /\ UNCHANGED <<pool, pipeline, part, original_value, converted_val, best_match, MatchStatus,
                   patterns, calculated, returned>>

NextDecode == DecodeCapacitor \/ DecodeResistor

SpecDecode == InitDecode /\ [][NextDecode]_vars

\* ------------------------------------------------------------- the claims
\* the rows of a final table; none when the table was never written
TableRows(file) == IF file.state = "ok" THEN file.data ELSE <<>>

\* the batch an input row belongs to, counted from 0
ChunkOf(row) == (row.Line - 1) \div batch_size

\* process_single_row raises on the row (only float() of line 137 can raise
\* in it, so the rows whose Value it accepts are not looked at further)
Raises(row) ==
    /\ parse_value_column(row.Value).raised
    /\ \E o \in OutcomesOfRow[row] : o.type = "raise"

\* how many rows of a table are a result for input line n
Occurrences(rows, n) ==
    Cardinality({j \in 1..Len(rows) : rows[j].Status # "error" /\ rows[j].Line = n})

ErrorRows(rows) == {j \in 1..Len(rows) : rows[j].Status = "error"}

\* the batches of a table, in order
Chunks(table, size) ==
    [c \in 1..((Len(table) + size - 1) \div size) |->
        SubSeq(table, (c - 1) * size + 1, Min2(c * size, Len(table)))]

\* the final table combine_batch_files makes of the batch results of one
\* kind: the non-empty ones are files, listed in any order; no file, no table
FinalTables(results, kind) ==
    LET files == {[kind |-> kind, num |-> c - 1, rows |-> results[c][kind]] :
                    c \in {d \in 1..Len(results) : Len(results[d][kind]) > 0}}
    IN  IF files = {} THEN {Absent}
        ELSE {FileOf(ConcatFiles(l)) : l \in Listings(files)}

\* every pair of final tables that one undisturbed process_file call, begun
\* on an empty output directory, can end with
UninterruptedFinals(table, size) ==
    LET chunks == Chunks(table, size)
        perChunk == [c \in 1..Len(chunks) |->
                        {[matched |-> r.matched, unmatched |-> r.unmatched] :
                            r \in process_batch(chunks[c])}]
        runs_ == OneOfEach(perChunk)
    IN  UNION {FinalTables(f, "matched") \X FinalTables(f, "unmatched") : f \in runs_}

UninterruptedFinalsOf ==
    [t \in InputTables, size \in 1..MaxBatch |-> UninterruptedFinals(t, size)]

\* C1: a call interrupted in the loop over the batches, followed by a
\* second call on the same input, directory and configuration, ends with
\* final tables that an uninterrupted call produces.
ResumeEqualsUninterrupted ==
    (pc = "done" /\ runs > 1)
        => <<MatchedOutput, notMatchedOutput>> \in UninterruptedFinalsOf[input, batch_size]

\* the resumed call started from a checkpoint past the first batch and had
\* batches left to process
ResumeWitness ==
    /\ pc = "done"
    /\ runs > 1
    /\ skip > 0
    /\ skip < Len(input)
    /\ MatchedOutput.state = "ok"
    /\ notMatchedOutput.state = "ok"

\* the rows held by the batch files of the output directory
RowsInBatchFiles ==
    LET RECURSIVE Sum(_)
        Sum(fs) == IF fs = {} THEN 0
                   ELSE LET f == CHOOSE g \in fs : TRUE
                        IN  Len(f.rows) + Sum(fs \ {f})
    IN  Sum(batch_files)

\* C2: between two batches, a persisted checkpoint counts exactly the rows
\* held by the batch files of the output directory.
CheckpointCountsBatchRows ==
    (pc = "loop" /\ checkpoint_file.state = "ok")
        => checkpoint_file.data[1] = RowsInBatchFiles

\* C3: an undisturbed call on a directory without checkpoint or batch files
\* ends with every input row exactly once in the two final tables together.
EveryRowOnce ==
    pc = "done" =>
        LET m == TableRows(MatchedOutput)
            u == TableRows(notMatchedOutput)
        IN  /\ Len(m) + Len(u) = Len(input)
            /\ ErrorRows(m) = {}
            /\ Cardinality(ErrorRows(u)) = Cardinality({i \in 1..Len(input) : Raises(input[i])})
            /\ \A i \in 1..Len(input) :
                  ~Raises(input[i]) => Occurrences(m, i) + Occurrences(u, i) = 1

\* several batches, a row that raised, and both tables written
EveryRowOnceWitness ==
    /\ pc = "done"
    /\ batch_size < Len(input)
    /\ \E i \in 1..Len(input) : Raises(input[i])
    /\ MatchedOutput.state = "ok"
    /\ notMatchedOutput.state = "ok"

\* C4: a call stopped in the loop after at least one batch was completed
\* leaves a checkpoint that counts all rows completed so far.
StopPersistsCheckpoint ==
    (pc = "stopped" /\ Phase(stop.at) = "stopped in the loop" /\ processed_rows > 0)
        => (checkpoint_file.state = "ok" /\ checkpoint_file.data[1] = processed_rows)

\* the batch just completed took processed_rows across a multiple of
\* checkpoint_interval
CrossedInterval ==
    LET last == Min2(start, Len(df)) - (start - batch_size)
    IN  processed_rows \div checkpoint_interval
            > (processed_rows - last) \div checkpoint_interval

\* C5: when the batch just completed took the counter across a multiple of
\* checkpoint_interval, the checkpoint is saved before the next batch.
CheckpointAtEveryCrossing ==
    (pc = "loop" /\ start > 0 /\ CrossedInterval)
        => (checkpoint_file.state = "ok" /\ checkpoint_file.data[1] = processed_rows)

\* no row of a later batch before a row of an earlier one (the rows that
\* name their input line)
InChunkOrder(rows) ==
    \A i, j \in 1..Len(rows) :
        (i < j /\ rows[i].Status # "error" /\ rows[j].Status # "error")
            => ChunkOf(rows[i]) <= ChunkOf(rows[j])

\* C6: in each final table the rows of an earlier batch precede the rows of
\* a later batch.
FinalTablesInChunkOrder ==
    pc = "done" => (InChunkOrder(TableRows(MatchedOutput))
                    /\ InChunkOrder(TableRows(notMatchedOutput)))

\* every row of a batch file is in the final table of its kind
Combined(f) ==
    LET table == TableRows(IF f.kind = "matched" THEN MatchedOutput ELSE notMatchedOutput)
    IN  \A i \in 1..Len(f.rows) : \E j \in 1..Len(table) : table[j] = f.rows[i]

\* the step removes a batch file or a checkpoint file
RemovesAFile ==
    \/ \E f \in batch_files : f \notin batch_files'
    \/ \E i \in 1..3 : checkpoint[i].state # "absent" /\ checkpoint'[i].state = "absent"

\* C7: a completed call leaves no batch file and no checkpoint file, and no
\* such file is removed while a batch file holds rows that its final table
\* does not hold.
RemovalOnlyAfterBothTables ==
    /\ [](pc = "done" => (batch_files = {} /\ \A i \in 1..3 : checkpoint[i].state = "absent"))
    /\ [][(pc \in {"remove_matched", "remove_unmatched", "remove_checkpoint",
                   "remove_matched_temp", "remove_unmatched_temp"} /\ RemovesAFile)
            => \A f \in batch_files : Combined(f)]_vars

\* C8: a write of save_checkpoint that fails leaves the checkpoint that was
\* there (record and both buffers) as it was.
FailedSaveKeepsCheckpoint ==
    (pc = "stopped" /\ stop.cause = "write_failed" /\ at_save[1].state = "ok")
        => checkpoint = at_save

RerunGivesSameTables ==
    (pc = "done" /\ runs > 1)
        => (MatchedOutput = log[Len(log)].matched
            /\ notMatchedOutput = log[Len(log)].unmatched)

\* the Value cell gives the capacitor matcher no number: it is empty, holds
\* no digit, or holds what float() rejects
NoCapacitorTarget(cell) ==
    \/ cell.na
    \/ ~SearchRun(Str(cell), Digits \cup {"."}).found
    \/ ~ParseFloat(SearchRun(Str(cell), Digits \cup {"."}).text).ok

\* C11: a row whose Value is absent or unparseable is never classified as
\* matched, by the capacitor matcher (process_single_row) and by the resistor
\* tool (process_dataframe) alike.
AbsentTargetNeverMatched ==
    /\ (stage = "returned" /\ NoCapacitorTarget(original_value)) => returned.type # "matched"
    /\ (stage = "appended" /\ converted_val.none) => MatchStatus # "matched"

\* a whole number of ohms as an integer
Ohms(v) == v.m * Pow10(v.e)

\* abs(candidate - target) for whole numbers of ohms
Difference(candidate, target) ==
    IF Ohms(candidate) < Ohms(target) THEN Ohms(target) - Ohms(candidate)
    ELSE Ohms(candidate) - Ohms(target)

Larger(candidate, target) ==
    IF Ohms(candidate) < Ohms(target) THEN Ohms(target) ELSE Ohms(candidate)

\* some entry of the list differs from the target by less than 1e-10 (for
\* whole numbers of ohms: by nothing)
SomeExact == \E k \in 1..Len(parsed) : Difference(parsed[k].value, converted_val.val) = 0

\* C12: when some entry of the list differs from the target by less than
\* 1e-10, find_best_match returns an entry that differs from the target by
\* less than 1e-10, wherever the entry stands and whatever precedes it.
ExactMatchWins ==
    (stage = "searched" /\ ~converted_val.none /\ SomeExact)
        => (~best_match.none /\ Difference(best_match.result.value, converted_val.val) = 0)

\* the exact entry was returned although an entry within 0.1% of the target
\* stands before it
ExactMatchWitness ==
    /\ stage = "searched"
    /\ ~converted_val.none
    /\ Len(parsed) = 2
    /\ Difference(parsed[1].value, converted_val.val) > 0
    /\ 1000 * Difference(parsed[1].value, converted_val.val)
           < Larger(parsed[1].value, converted_val.val)
    /\ Difference(parsed[2].value, converted_val.val) = 0
    /\ ~best_match.none
    /\ best_match.result.position = 1

\* relative difference of the entry below 0.001
RelativeBelowTolerance(candidate, target) ==
    /\ Larger(candidate, target) > 0
    /\ 1000 * Difference(candidate, target) < Larger(candidate, target)

\* the relative difference of a is smaller than that of b (both below 0.001)
SmallerRelative(a, b, target) ==
    Difference(a, target) * Larger(b, target) < Difference(b, target) * Larger(a, target)

\* C13: when no entry is exact, find_best_match returns the entry whose
\* relative difference |candidate - target| / max(candidate, target) is the
\* smallest of all, if that is below 0.001, and None when no entry's relative
\* difference is below 0.001.
BestScoreIsSmallestRelative ==
    (stage = "searched" /\ ~converted_val.none /\ ~SomeExact)
        => LET t == converted_val.val
               near == {k \in 1..Len(parsed) : RelativeBelowTolerance(parsed[k].value, t)}
           IN  IF near = {} THEN best_match.none
               ELSE /\ ~best_match.none
                    /\ RelativeBelowTolerance(best_match.result.value, t)
                    /\ \A k \in near :
                          ~SmallerRelative(parsed[k].value, best_match.result.value, t)

\* C13, as the code has it: when no entry is exact, find_best_match returns
\* None when no entry's relative difference is below 0.001, and otherwise the
\* first of the entries whose absolute difference |candidate - target| is
\* the smallest among the entries with a relative difference below 0.001.
BestScoreIsSmallestDifference ==
    (stage = "searched" /\ ~converted_val.none /\ ~SomeExact)
        => LET t == converted_val.val
               near == {k \in 1..Len(parsed) : RelativeBelowTolerance(parsed[k].value, t)}
               least == {k \in near : \A j \in near :
                            Difference(parsed[k].value, t) <= Difference(parsed[j].value, t)}
           IN  IF near = {} THEN best_match.none
               ELSE /\ ~best_match.none
                    /\ best_match.result.position + 1 \in least
                    /\ \A j \in least : best_match.result.position + 1 <= j

\* the entry returned is the nearest in ohms although an entry before it is
\* nearer in relative difference
SmallestDifferenceWitness ==
    /\ stage = "searched"
    /\ ~converted_val.none
    /\ ~SomeExact
    /\ ~best_match.none
    /\ best_match.result.position = 1
    /\ RelativeBelowTolerance(parsed[1].value, converted_val.val)
    /\ SmallerRelative(parsed[1].value, best_match.result.value, converted_val.val)

\* the calculated values of the row in hand, in generation order, and its
\* target in picofarads
CalculatedValues == Flatten(calculated)

TargetPf ==
    convert_to_pf(parse_value_column(original_value).numeric,
                  parse_value_column(original_value).unit)

\* the calculated values within the tolerance of the target
Acceptable == {i \in 1..Len(CalculatedValues) : Within(CalculatedValues[i], TargetPf)}

Code == Strip(Upper(Str(part)))

\* the all-digit windows of three characters of the code, by offset
DigitWindows3 == {i \in 0..(Len(Code) - 3) : IsDigitStr(Slice(Code, i, i + 3))}

\* C15: for every 3-digit window ABC of the code with C <= 6 the decoder
\* yields an entry with pattern ABC and value AB * 10^C ohms, and for C of 7,
\* 8 or 9 the traditional rule yields no entry for the window.
ThreeDigitCodes ==
    stage = "parsed" =>
        \A i \in DigitWindows3 :
            LET ABC == Slice(Code, i, i + 3)
                AB == 10 * DigitVal(ABC[1]) + DigitVal(ABC[2])
                C == DigitVal(ABC[3])
                entries == {k \in 1..Len(parsed) :
                              parsed[k].type = "3-digit-traditional" /\ parsed[k].pattern = ABC}
            IN  IF C <= 6
                THEN \E k \in entries :
                        /\ parsed[k].value.int
                        /\ parsed[k].value.m * Pow10(parsed[k].value.e) = AB * Pow10(C)
                ELSE entries = {}

\* a code with a window whose last digit is at most 6 and one whose last
\* digit is above 6
ThreeDigitWitness ==
    /\ stage = "parsed"
    /\ \E i, j \in DigitWindows3 :
          /\ DigitVal(Code[i + 3]) <= 6
          /\ DigitVal(Code[i + 1]) > 0
          /\ DigitVal(Code[j + 3]) > 6
    /\ Len(parsed) > 0

\* the decoder's list holds an R-decimal entry with this pattern and value
HasRDecimal(pattern, value) ==
    \E k \in 1..Len(parsed) :
        /\ parsed[k].type = "r-decimal"
        /\ parsed[k].pattern = pattern
        /\ parsed[k].value = value

\* C16: for a code made of R and n digits d after it, 1 <= n <= 4, the
\* decoder yields a leading-form entry whose value is the decimal 0.d.
LeadingFormValue ==
    (stage = "parsed" /\ MatchLeading(Code))
        => \E k \in 1..Len(parsed) :
              /\ parsed[k].rule = <<"R-Decimal-Leading">>
              /\ parsed[k].pattern = Code
              /\ parsed[k].value = DecimalOf(<<"0">>, Tail(Code))

\* the substrings of the code, as (offset, length) pairs
Substrings == {w \in (0..Len(Code)) \X (2..7) : w[1] + w[2] <= Len(Code)}

\* C17: wherever a substring of the shape R + 1-4 digits, 1-3 digits + R +
\* 1-3 digits or 1-3 digits + R occurs in a code, the decoder's list holds
\* an R-decimal entry with that substring as pattern and the value
\* 0.digits, before.after or digits.0, whatever stands before or after it.
RDecimalAtEveryOffset ==
    stage = "parsed" =>
        \A w \in Substrings :
            LET sub == Slice(Code, w[1], w[1] + w[2])
                r == MiddleR(sub)
            IN  /\ MatchLeading(sub) => HasRDecimal(sub, DecimalOf(<<"0">>, Tail(sub)))
                /\ r > 0 => HasRDecimal(sub, DecimalOf(SubSeq(sub, 1, r - 1),
                                                        SubSeq(sub, r + 1, Len(sub))))
                /\ MatchTrailing(sub)
                      => HasRDecimal(sub, DecimalOf(SubSeq(sub, 1, Len(sub) - 1), <<"0">>))

\* the power of ten a magnitude letter stands for
MagnitudeExp(letter) ==
    CASE letter = "K" -> 3
      [] letter = "M" -> 6
      [] letter = "G" -> 9
      [] letter = "T" -> 12

\* index of the magnitude letter of a code of the shape digits + letter or
\* digits + letter + digits; 0 for any other code
MagnitudeIndex(code) ==
    LET at == {i \in 2..Len(code) :
                 /\ code[i] \in {"K", "M", "G", "T"}
                 /\ IsDigitStr(SubSeq(code, 1, i - 1))
                 /\ (i = Len(code) \/ IsDigitStr(SubSeq(code, i + 1, Len(code))))}
    IN  IF at = {} THEN 0 ELSE CHOOSE i \in at : TRUE

\* C18: a code of the shape digits + K/M/G/T decodes to an entry of
\* digits * multiplier and a code of the shape digits + letter + digits to
\* an entry of (before.after) * multiplier: 3K3 gives 3300, 82K gives 82000
\* and 2M20 gives 2200000.
MagnitudeLetters ==
    (stage = "parsed" /\ MagnitudeIndex(Code) > 0) =>
        LET i == MagnitudeIndex(Code)
            before == SubSeq(Code, 1, i - 1)
            after == SubSeq(Code, i + 1, Len(Code))
            expected == TimesPow10(DecimalOf(before, after), MagnitudeExp(Code[i]), FALSE)
        IN  \E k \in 1..Len(parsed) :
                /\ parsed[k].value.m = expected.m
                /\ parsed[k].value.e = expected.e

\* the numbers of a list of calculated values, without their Python type
NumbersOf(values) == {<<values[k].m, values[k].e>> : k \in 1..Len(values)}

\* base * 10^k as such a number
Scaled(base, k) == LET n == Norm(base, k, FALSE) IN <<n.m, n.e>>

\* C19: for a 3-digit pattern with base AB and exponent digit C the
\* calculated values are AB * 10^C, plus AB * 10^-1 and AB * 10^-3 when C is
\* 7 or 9, plus AB * 10^-2 when C is 8, and nothing else: '477' gives
\* {47e7, 4.7, 0.047}.
ExponentTable ==
    stage = "calculated" =>
        \A i \in 1..Len(patterns) :
            (IsDigitStr(patterns[i]) /\ Len(patterns[i]) = 3) =>
                LET base == IntOf(SubSeq(patterns[i], 1, 2))
                    digit == DigitVal(patterns[i][3])
                IN  NumbersOf(calculated[i]) =
                        {Scaled(base, digit)}
                            \cup (IF digit \in {7, 9}
                                  THEN {Scaled(base, -1), Scaled(base, -3)}
                                  ELSE {})
                            \cup (IF digit = 8 THEN {Scaled(base, -2)} ELSE {})

\* C20: a second decode of the same code returns the same candidates in the
\* same order as the first, whichever interpreter runs it.
DecodeIsDeterministic ==
    [][(stage = "returned" /\ stage' = "again")
          => (patterns' = patterns /\ calculated' = calculated)]_vars

\* a text without a digit and without the letter R
NoDigitNoR(text) == \A i \in 1..Len(text) : text[i] \notin Digits \cup {"R", "r"}

\* a str that is empty or holds no digit and no R
NothingToDecode(cell) == IsStr(cell) /\ NoDigitNoR(cell.s)

PassesThrough(in_row, out_row) ==
    \A c \in DOMAIN in_row : c \in DOMAIN out_row /\ out_row[c] = in_row[c]

\* C22: every output row of both tools carries every column of its input
\* row with the value unchanged, the rows recorded with an error status
\* included.
EveryColumnPassesThrough ==
    /\ stage = "appended" => PassesThrough(ResistorRow, returned.row)
    /\ pc = "done" =>
          \A table \in {TableRows(MatchedOutput), TableRows(notMatchedOutput)} :
              \A j \in 1..Len(table) :
                  \E i \in 1..Len(input) : PassesThrough(input[i], table[j])

\* the rows of the example table of the tool (lines 704-711): the part
\* number, the types of entry the rule named stands for, and the expected
\* value as m * 10^e
ExampleTable ==
    << [part |-> <<"M", "C", "R", "1", "0", "0", "J", "Z", "H", "J", "S", "R", "0", "4", "7">>,
        types |-> {"r-decimal"}, m |-> 47, e |-> -3],
       [part |-> <<"P", "A", "1", "2", "0", "6", "F", "R", "E", "4", "7", "0", "R", "0", "1", "2", "Z">>,
        types |-> {"r-decimal"}, m |-> 12, e |-> -3],
       [part |-> <<"C", "H", "P", "1", "2", "0", "6", "L", "7", "5", "R", "0", "J", "N", "T">>,
        types |-> {"r-decimal"}, m |-> 75, e |-> 0],
       [part |-> <<"T", "E", "S", "T", "1", "2", "3", "K", "4", "5", "6">>,
        types |-> {"4-digit-rule1"}, m |-> 123, e |-> -2],
       [part |-> <<"A", "B", "C", "4", "7", "B", "2", "D", "E", "F">>,
        types |-> {"4-digit-rule2"}, m |-> 472, e |-> -1],
       [part |-> <<"X", "Y", "Z", "4", "7", "0", "1", "G", "H", "I">>,
        types |-> {"3-digit-traditional", "4-digit-traditional"}, m |-> 47, e |-> 2] >>

\* the list decoded for the part number holds an entry of the rule of the
\* example with the value of the example
ExampleHolds(example) ==
    \E k \in 1..Len(parsed) :
        /\ parsed[k].type \in example.types
        /\ parsed[k].value.m = example.m
        /\ parsed[k].value.e = example.e

\* C23: decoding each part number of the tool's example table gives an
\* entry of the rule listed with the value listed.
ExampleTableIsAccurate ==
    stage = "parsed" =>
        \A x \in 1..Len(ExampleTable) :
            part = Cell(ExampleTable[x].part) => ExampleHolds(ExampleTable[x])

\* the rows held by the batch files of one batch
BatchRowsWritten(num) ==
    LET RECURSIVE Sum(_)
        Sum(fs) == IF fs = {} THEN 0
                   ELSE LET f == CHOOSE g \in fs : TRUE
                        IN  Len(f.rows) + Sum(fs \ {f})
    IN  Sum({f \in batch_files : f.num = num})

\* C24: while a row of a batch is submitted, waits, runs or awaits
\* collection, every task of every earlier batch has returned and been
\* collected and the batch files of that batch hold one row per task, for
\* every number of threads.
ChunksAreSerialized ==
    \A k \in 1..Len(futures) : \A j \in 1..Len(futures) :
        (futures[k].state # "yielded" /\ futures[j].chunk < futures[k].chunk)
            => /\ futures[j].state = "yielded"
               /\ BatchRowsWritten(futures[j].chunk)
                      = Cardinality(FuturesOf(futures, futures[j].chunk))

\* with two threads, a row of the second batch runs after a first batch of
\* more than one row
SerializedWitness ==
    /\ num_threads = 2
    /\ Cardinality(FuturesOf(futures, 0)) > 1
    /\ \E k \in FuturesOf(futures, 1) : futures[k].state = "running"

\* the rows of a list that stand for an input row are in input order
InRowOrder(rows) ==
    \A a \in 1..Len(rows) : \A b \in 1..Len(rows) :
        (a < b /\ rows[a].Status # "error" /\ rows[b].Status # "error")
            => rows[a].Line < rows[b].Line

\* C25: the matched list and the unmatched list process_batch returns are
\* each in the order of the input rows, for every number of threads and
\* every order in which the tasks complete.
BatchListsInRowOrder ==
    pc = "write_matched" => (InRowOrder(batch_matched) /\ InRowOrder(batch_unmatched))

\* the record, the matched buffer and the unmatched buffer on disk agree
SnapshotIsConsistent ==
    (/\ checkpoint_file.state = "ok"
     /\ matched_temp_file.state = "ok"
     /\ unmatched_temp_file.state = "ok")
        => /\ checkpoint_file.data[1]
                 = Len(matched_temp_file.data) + Len(unmatched_temp_file.data)
           /\ checkpoint_file.data[2] = Len(matched_temp_file.data)
           /\ checkpoint_file.data[3] = Len(unmatched_temp_file.data)

\* a step of a worker thread: a task starts or returns
WorkerStep ==
    /\ Len(futures') = Len(futures)
    /\ \E k \in 1..Len(futures) :
          futures[k].state # futures'[k].state /\ futures'[k].state \in {"running", "finished"}

\* C26: in a call begun without a checkpoint, whenever the lock is free
\* processed_rows is the number of rows in the two buffers, a step of a
\* worker thread writes none of the three, and the three files of a
\* completed save_checkpoint agree with one another.
CounterAndBuffersAgree ==
    /\ [](lock = "free" => processed_rows = Len(matched_results) + Len(unmatched_results))
    /\ [][WorkerStep => UNCHANGED <<processed_rows, matched_results, unmatched_results>>]_vars
    /\ [](pc \notin {"save_matched", "save_unmatched"} => SnapshotIsConsistent)

\* a checkpoint was saved after a batch in which a task raised, and a batch
\* later the lock is held with the counter ahead of the buffers
AgreeWitness ==
    /\ lock = "held"
    /\ pc = "extend_matched"
    /\ processed_rows > Len(matched_results) + Len(unmatched_results)
    /\ checkpoint_file.state = "ok"
    /\ checkpoint_file.data[1] > 0
    /\ \E j \in 1..Len(unmatched_results) : unmatched_results[j].Status = "error"

\* the target of the row in picofarads, where parse_value_column returns
TargetOfRow ==
    LET target == parse_value_column(original_value)
    IN  [raised |-> target.raised, pf |-> convert_to_pf(target.numeric, target.unit)]

\* some non-zero value calculated for the row, read as microfarads, is the
\* target of the row
MicrofaradsHit ==
    \E i \in 1..Len(calculated) : \E j \in 1..Len(calculated[i]) :
        /\ ~IsZero(calculated[i][j])
        /\ Within(TimesPow10(calculated[i][j], 6, FALSE), TargetOfRow.pf)

\* C27: a row whose target is v microfarads, v a non-zero value calculated
\* from its part number, is returned as matched.
MicrofaradReadingMatches ==
    (stage = "returned" /\ ~TargetOfRow.raised /\ MicrofaradsHit)
        => returned.type = "matched"

\* C28: a row whose part number gives no pattern is returned as unmatched
\* with 'No patterns found' by the capacitor matcher and appended to
\* no_match_rows with 'No Pattern Found' by the resistance tool, whatever
\* its Value cell holds, and find_best_match is never called for it.
NoPatternIsUnmatched ==
    /\ (stage = "returned" /\ patterns = <<>>)
          => /\ returned.type = "unmatched"
             /\ returned.row.ExValue = Message("No patterns found")
             /\ returned.row.Status = "no_match"
    /\ (stage = "appended" /\ parsed = <<>>)
          => /\ returned.type = "no_match_rows"
             /\ returned.row.ParsedPattern = Message("No Pattern Found")
             /\ returned.row.MatchStatus = "no_pattern"
    /\ stage = "searched" => parsed # <<>>

\* the capacitor matcher returned a row without a pattern whose Value cell
\* float() rejects
NoPatternWitness ==
    /\ stage = "returned"
    /\ patterns = <<>>
    /\ original_value = Cell(<<"1", ".", "2", ".", "3">>)
    /\ returned.type = "unmatched"

\* what load_checkpoint makes of the files and fields in hand
LoadInHand ==
    load_checkpoint(checkpoint_file, matched_temp_file, unmatched_temp_file,
                    processed_rows, matched_results, unmatched_results)

\* C29: when load_checkpoint returns False, process_file goes on with
\* processed_rows 0 and both buffers empty, and no input row is skipped.
FailedLoadStartsFresh ==
    [][(pc = "load" /\ pc' = "loop" /\ ~LoadInHand.returned)
          => /\ processed_rows' = 0
             /\ matched_results' = <<>>
             /\ unmatched_results' = <<>>
             /\ skip' = 0]_vars

\* C30: a call that follows one stopped in combine_batch_files or in the
\* removal of the checkpoint files ends with every input row exactly once
\* in the two final tables together.
CombiningIsRecoverable ==
    (pc = "done" /\ Len(log) > 0 /\ log[Len(log)].end = "stopped in the combining")
        => /\ Len(TableRows(MatchedOutput)) + Len(TableRows(notMatchedOutput)) = Len(input)
           /\ \A i \in 1..Len(input) :
                 ~Raises(input[i])
                     => Occurrences(TableRows(MatchedOutput), i)
                            + Occurrences(TableRows(notMatchedOutput), i) = 1

====
